---- MODULE Spec2Model ----
(***************************************************************************)
(* EcoCommute: seat allocation and two-side ride confirmation.             *)
(*                                                                         *)
(* The model follows the Django application in src/rides (models.py and    *)
(* views.py).  The views carry no transaction.atomic and no                *)
(* select_for_update, so under Django's autocommit every ORM call is its   *)
(* own database transaction: a view is a sequence of separate reads and    *)
(* writes and the views of concurrent requests interleave between them.    *)
(* Model.save() without update_fields rewrites EVERY column of the row     *)
(* from the in-memory object the view read earlier.                        *)
(*                                                                         *)
(* One ride is modelled.  Each request-handling worker holds the request   *)
(* it is serving, its in-memory copy of the Ride row, the RidePassenger    *)
(* object it fetched, and its position in the view.  Of the ride views     *)
(* only POST requests are modelled (a GET of them renders a page and       *)
(* writes nothing).  The LiveLocation table holds at most one row per      *)
(* user, for the modelled ride or for some other ride.                     *)
(***************************************************************************)
EXTENDS Integers, FiniteSets, Sequences, TLC

\* ------------------------------------------------------------------------
\* Bounds of the model
\* ------------------------------------------------------------------------
MaxSeats == 3
MaxSeatsRace == 2
NumRiders == 2
NumWorkers == 2
MaxRequests == 5
MaxDistance == 12
MaxCarSeats == 4
MaxClock == 3

\* ------------------------------------------------------------------------
\* Users, workers, requests
\* ------------------------------------------------------------------------
\* Ride.creator: the user who created (drives) the ride; user id 0.
Creator == 0
Riders == 1..NumRiders
Users == {Creator} \cup Riders
Workers == 1..NumWorkers

\* Ride.STATUS_CHOICES
STATUS_CHOICES == {"created", "started", "completed"}

\* The views that write the Ride row or the RidePassenger table.
\* leave_ride and cancel_ride have the same body (they differ in the page
\* they redirect to), so one view name stands for both.
ConfirmViews == {"driver_start_ride", "passenger_confirm_start",
                 "driver_end_ride", "passenger_confirm_arrival"}
Views == {"join_ride", "leave_ride"} \cup ConfirmViews

Max(a, b) == IF a >= b THEN a ELSE b
Min(a, b) == IF a <= b THEN a ELSE b

\* ------------------------------------------------------------------------
\* The Ride row
\* ------------------------------------------------------------------------
\* Variant of NewRide: create_ride forgets the driver's own seat.
NewRide_NoDriverSeat(total_seats) ==
    [total_seats      |-> total_seats,
     seats_available  |-> total_seats,
     ride_status      |-> "created",
     driver_started   |-> FALSE,
     passenger_started |-> FALSE,
     driver_ended     |-> FALSE,
     passenger_ended  |-> FALSE]

\* create_ride: the row Ride.objects.create(...) inserts; the confirmation
\* flags and the status take the model's defaults.
NewRide(total_seats) ==
    [total_seats      |-> total_seats,
     seats_available  |-> Max(total_seats - 1, 0),
     ride_status      |-> "created",
     driver_started   |-> FALSE,
     passenger_started |-> FALSE,
     driver_ended     |-> FALSE,
     passenger_ended  |-> FALSE]

\* The in-memory Ride of a worker that is serving no request.
NoRide == NewRide(0)

\* A worker that is serving no request.
NoRequest == [view |-> "none", user |-> Creator, pickup_point |-> FALSE]

\* ------------------------------------------------------------------------
\* The LiveLocation row
\* ------------------------------------------------------------------------
\* Two coordinates (latitude and longitude together) tell a row that was
\* overwritten from one that was not.
Positions == {"here", "there"}
NoPosition == "nowhere"

\* LiveLocation.ride: the modelled ride, or any other ride of the system.
RideRefs == {"this", "other"}

\* The user has no LiveLocation row (LiveLocation.user is one-to-one).
NoLocation == [ride |-> "none", position |-> NoPosition, is_sharing |-> FALSE]

\* Variant of check_and_update_status: the first branch fires on either
\* start confirmation.
check_and_update_status_EitherStarted(r) ==
    IF (r.driver_started \/ r.passenger_started) /\ r.ride_status = "created"
    THEN "started"
    ELSE IF r.driver_ended /\ r.passenger_ended /\ r.ride_status = "started"
    THEN "completed"
    ELSE r.ride_status

\* Variant of check_and_update_status: the first branch assigns the status
\* of the second.
check_and_update_status_WrongStatus(r) ==
    IF r.driver_started /\ r.passenger_started /\ r.ride_status = "created"
    THEN "completed"
    ELSE IF r.driver_ended /\ r.passenger_ended /\ r.ride_status = "started"
    THEN "completed"
    ELSE r.ride_status

\* Variant of check_and_update_status: the second branch fires on either end
\* confirmation.
check_and_update_status_EitherEnded(r) ==
    IF r.driver_started /\ r.passenger_started /\ r.ride_status = "created"
    THEN "started"
    ELSE IF (r.driver_ended \/ r.passenger_ended) /\ r.ride_status = "started"
    THEN "completed"
    ELSE r.ride_status

\* Ride.check_and_update_status, on the in-memory object: the status the
\* object has afterwards.  The first branch returns, so the second is only
\* looked at when the first did not fire.
check_and_update_status(r) ==
    IF r.driver_started /\ r.passenger_started /\ r.ride_status = "created"
    THEN "started"
    ELSE IF r.driver_ended /\ r.passenger_ended /\ r.ride_status = "started"
    THEN "completed"
    ELSE r.ride_status

\* Variant of occupant_count: the driver is added to the used seats.
occupant_count_DriverAdded(r) == Max(r.total_seats - r.seats_available + 1, 1)

\* Ride.occupant_count: used_seats = total_seats - seats_available, at least 1.
occupant_count(r) == Max(r.total_seats - r.seats_available, 1)

\* ------------------------------------------------------------------------
\* CO2 of a ride
\* ------------------------------------------------------------------------
\* Grams of CO2 per km.
EMISSION_FACTORS == [car_petrol |-> 120, bike |-> 0]

VehicleTypes == {"car_petrol", "bike", "scooter"}

\* Variant of calculate_co2: the saving is the share, not the difference.
calculate_co2_SavedIsShared(distance_km, vehicle_type, occupants) ==
    LET factor == IF vehicle_type \in DOMAIN EMISSION_FACTORS
                  THEN EMISSION_FACTORS[vehicle_type]
                  ELSE EMISSION_FACTORS["car_petrol"]
        solo == distance_km * factor
        shared == solo \div Max(occupants, 1)
    IN [solo |-> solo, shared |-> shared, saved |-> shared]

\* calculate_co2, in grams: the code divides distance_km * factor by 1000
\* and returns kilograms.  The share is taken to the whole gram.
calculate_co2(distance_km, vehicle_type, occupants) ==
    LET factor == IF vehicle_type \in DOMAIN EMISSION_FACTORS
                  THEN EMISSION_FACTORS[vehicle_type]
                  ELSE EMISSION_FACTORS["car_petrol"]
        solo == distance_km * factor
        shared == solo \div Max(occupants, 1)
    IN [solo |-> solo, shared |-> shared, saved |-> solo - shared]

\* No summary computed yet.
NoFootprint ==
    [distance_km |-> 0, vehicle_type |-> "none", total_seats |-> 0, joined |-> 0,
     solo |-> 0, shared |-> 0, saved |-> 0]

\* ------------------------------------------------------------------------
\* State
\* ------------------------------------------------------------------------
VARIABLES
    ride,        \* the Ride row in the database
    passengers,  \* RidePassenger table of the ride: user -> pk of the row, 0 = no row
    verified,    \* users whose profile has aadhaar_verified = True
    pc,          \* worker -> position in the view it is running
    req,         \* worker -> the request it serves (or answered last)
    local,       \* worker -> its in-memory copy of the Ride row
    fetched,     \* worker -> pk of the RidePassenger object it holds, 0 = none
    outcome,     \* worker -> the response to the request it answered last
    issued,      \* number of requests accepted so far (saturates at MaxRequests)
    ride0,       \* history: the Ride row before the first request
    passengers0, \* history: the users holding a RidePassenger row before the first request
    locations,   \* LiveLocation table: user -> the user's row, NoLocation = no row
    shown,       \* worker -> the coordinates in its last get_location response
    locations0,  \* history: the LiveLocation table before the first request
    ride_exists, \* whether the Ride row is in the database
    mailer,      \* what send_mail does in this run: a member of MailResults
    footprint,   \* the ride summary the dashboard computed last
    clock,       \* the time, in units of five minutes
    otp_sent_at  \* user -> when the code of the user's session was sent, or NoTime

vars == <<ride, passengers, verified, pc, req, local, fetched, outcome,
          issued, ride0, passengers0, locations, shown, locations0,
          ride_exists, mailer, footprint, clock, otp_sent_at>>

dbvars == <<ride, passengers>>

\* What the views of the Ride row and the RidePassenger table leave alone.
histvars == <<verified, ride0, passengers0, locations, shown, locations0,
              ride_exists, mailer, footprint, clock, otp_sent_at>>

\* Users holding a RidePassenger row on the ride.
Joined == {u \in Users : passengers[u] # 0}

\* The primary key the database gives the next RidePassenger row: one that
\* no row has and that no worker still holds from an earlier fetch.
NextPk ==
    CHOOSE k \in 1..(NumRiders + NumWorkers + 2) :
        /\ \A u \in Users : passengers[u] # k
        /\ \A w \in Workers : fetched[w] # k
        /\ \A j \in 1..(k - 1) :
              (\E u \in Users : passengers[u] = j) \/ (\E w \in Workers : fetched[w] = j)


\* ------------------------------------------------------------------------
\* Bookkeeping of a worker
\* ------------------------------------------------------------------------
Request(view, u, pickup) == [view |-> view, user |-> u, pickup_point |-> pickup]

\* The worker takes a request off the wire.
Accept(p) ==
    /\ pc[p] \in {"idle", "done"}
    /\ issued' = Min(issued + 1, MaxRequests)

\* The worker, serving request q, moves on inside its view.
Goto(p, where, q, r, pk) ==
    /\ pc' = [pc EXCEPT ![p] = where]
    /\ req' = [req EXCEPT ![p] = q]
    /\ local' = [local EXCEPT ![p] = r]
    /\ fetched' = [fetched EXCEPT ![p] = pk]
    /\ outcome' = [outcome EXCEPT ![p] = "none"]

\* The view returns its response to request q and its objects are dropped.
\* With keep, the answered request and its response stay on record at the
\* worker until it takes the next request; without, nothing is recorded.
Respond(p, q, out, keep) ==
    /\ pc' = [pc EXCEPT ![p] = IF keep THEN "done" ELSE "idle"]
    /\ req' = [req EXCEPT ![p] = IF keep THEN q ELSE NoRequest]
    /\ outcome' = [outcome EXCEPT ![p] = IF keep THEN out ELSE "none"]
    /\ local' = [local EXCEPT ![p] = NoRide]
    /\ fetched' = [fetched EXCEPT ![p] = 0]

\* ------------------------------------------------------------------------
\* aadhaar_submit_otp and create_ride
\* ------------------------------------------------------------------------
\* What the verification and creation views leave alone.
gateframe == <<ride0, passengers0, locations, shown, locations0, mailer,
               footprint, clock>>

\* No code pending in the session.
NoTime == -1

\* The session timeout of the code-entry page: 10 minutes.
OtpTimeout == 2

\* aadhaar_submit_otp: with a transaction in the session, when the provider
\* accepts the code the profile is marked verified and the session is
\* cleared.  No view ever resets the mark.
aadhaar_submit_otp(p, u, success, keep) ==
    LET q == Request("aadhaar_submit_otp", u, FALSE) IN
    /\ Accept(p)
    /\ IF otp_sent_at[u] = NoTime
       THEN /\ Respond(p, q, "session_expired", keep)
            /\ UNCHANGED <<verified, otp_sent_at>>
       ELSE IF success
       THEN /\ verified' = verified \cup {u}
            /\ otp_sent_at' = [otp_sent_at EXCEPT ![u] = NoTime]
            /\ Respond(p, q, "verified", keep)
       ELSE /\ Respond(p, q, "otp_failed", keep)
            /\ UNCHANGED <<verified, otp_sent_at>>
    /\ UNCHANGED <<dbvars, ride_exists, gateframe>>

\* A create_ride request: total_seats is the number sent.
CreateRequest(u, total_seats) ==
    [view |-> "create_ride", user |-> u, pickup_point |-> FALSE,
     total_seats |-> total_seats]

\* Variant of create_ride: the verification gate is missing.
create_ride_NoVerifyGate(p, u, total_seats, keep) ==
    LET q == CreateRequest(u, total_seats) IN
    /\ Accept(p)
    /\ IF total_seats < 1
       THEN /\ Respond(p, q, "bad_seats", keep)
            /\ UNCHANGED <<dbvars, ride_exists>>
       ELSE /\ Respond(p, q, "created", keep)
            /\ IF u = Creator /\ ~ride_exists
               THEN /\ ride' = NewRide(total_seats)
                    /\ ride_exists' = TRUE
                    /\ UNCHANGED passengers
               ELSE UNCHANGED <<dbvars, ride_exists>>
    /\ UNCHANGED <<verified, otp_sent_at, gateframe>>

\* create_ride: the verification gate, the total_seats check and
\* Ride.objects.create(...).  The ride of the model is the first ride of
\* Creator; any other ride created is a row the model does not follow.
create_ride(p, u, total_seats, keep) ==
    LET q == CreateRequest(u, total_seats) IN
    /\ Accept(p)
    /\ IF u \notin verified
       THEN /\ Respond(p, q, "verify_first", keep)
            /\ UNCHANGED <<dbvars, ride_exists>>
       ELSE IF total_seats < 1
       THEN /\ Respond(p, q, "bad_seats", keep)
            /\ UNCHANGED <<dbvars, ride_exists>>
       ELSE /\ Respond(p, q, "created", keep)
            /\ IF u = Creator /\ ~ride_exists
               THEN /\ ride' = NewRide(total_seats)
                    /\ ride_exists' = TRUE
                    /\ UNCHANGED passengers
               ELSE UNCHANGED <<dbvars, ride_exists>>
    /\ UNCHANGED <<verified, otp_sent_at, gateframe>>

\* aadhaar_send_otp: without consent or number the request is refused; when
\* the provider sends the code, its transaction and the time are put in the
\* session; when it does not, the session is left as it was.
aadhaar_send_otp(p, u, form, keep) ==
    LET q == Request("aadhaar_send_otp", u, FALSE) IN
    /\ Accept(p)
    /\ IF form = "incomplete"
       THEN /\ Respond(p, q, "refused", keep)
            /\ UNCHANGED otp_sent_at
       ELSE IF form = "sent"
       THEN /\ otp_sent_at' = [otp_sent_at EXCEPT ![u] = clock]
            /\ Respond(p, q, "otp_sent", keep)
       ELSE /\ Respond(p, q, "send_failed", keep)
            /\ UNCHANGED otp_sent_at
    /\ UNCHANGED <<dbvars, verified, ride_exists, gateframe>>

\* aadhaar_verify_otp, the code-entry page: without a transaction the user
\* is sent back; a transaction older than the timeout is cleared.
aadhaar_verify_otp(p, u, keep) ==
    LET q == Request("aadhaar_verify_otp", u, FALSE) IN
    /\ Accept(p)
    /\ IF otp_sent_at[u] = NoTime
       THEN /\ Respond(p, q, "start_first", keep)
            /\ UNCHANGED otp_sent_at
       ELSE IF clock - otp_sent_at[u] > OtpTimeout
       THEN /\ otp_sent_at' = [otp_sent_at EXCEPT ![u] = NoTime]
            /\ Respond(p, q, "otp_expired", keep)
       ELSE /\ Respond(p, q, "enter_otp", keep)
            /\ UNCHANGED otp_sent_at
    /\ UNCHANGED <<dbvars, verified, ride_exists, gateframe>>

\* Five minutes pass.
Tick ==
    /\ clock < MaxClock
    /\ clock' = clock + 1
    /\ UNCHANGED <<dbvars, verified, pc, req, local, fetched, outcome, issued,
                   ride0, passengers0, locations, shown, locations0,
                   ride_exists, mailer, footprint, otp_sent_at>>

\* ------------------------------------------------------------------------
\* join_ride
\* ------------------------------------------------------------------------
\* Variant of JoinRide_Get: the seats_available <= 0 check is missing.
JoinRide_Get_NoSeatsCheck(p, u, pickup, keep) ==
    LET q == Request("join_ride", u, pickup) IN
    /\ Accept(p)
    /\ IF u \notin verified THEN Respond(p, q, "verify_first", keep)
       ELSE IF ~ride_exists THEN Respond(p, q, "not_found", keep)
       ELSE IF Creator = u THEN Respond(p, q, "is_driver", keep)
       ELSE Goto(p, "join_exists", q, ride, 0)
    /\ UNCHANGED <<dbvars, histvars>>

\* Variant of JoinRide_Get: the creator check is missing.
JoinRide_Get_NoCreatorCheck(p, u, pickup, keep) ==
    LET q == Request("join_ride", u, pickup) IN
    /\ Accept(p)
    /\ IF u \notin verified THEN Respond(p, q, "verify_first", keep)
       ELSE IF ~ride_exists THEN Respond(p, q, "not_found", keep)
       ELSE IF ride.seats_available <= 0 THEN Respond(p, q, "no_seats", keep)
       ELSE Goto(p, "join_exists", q, ride, 0)
    /\ UNCHANGED <<dbvars, histvars>>

\* Variant of JoinRide_Get: the verification gate is missing.
JoinRide_Get_NoVerifyGate(p, u, pickup, keep) ==
    LET q == Request("join_ride", u, pickup) IN
    /\ Accept(p)
    /\ IF ~ride_exists THEN Respond(p, q, "not_found", keep)
       ELSE IF Creator = u THEN Respond(p, q, "is_driver", keep)
       ELSE IF ride.seats_available <= 0 THEN Respond(p, q, "no_seats", keep)
       ELSE Goto(p, "join_exists", q, ride, 0)
    /\ UNCHANGED <<dbvars, histvars>>

\* The verification gate, get_object_or_404(Ride), and the two checks made
\* on the in-memory row (driver, seats).
JoinRide_Get(p, u, pickup, keep) ==
    LET q == Request("join_ride", u, pickup) IN
    /\ Accept(p)
    /\ IF u \notin verified THEN Respond(p, q, "verify_first", keep)
       ELSE IF ~ride_exists THEN Respond(p, q, "not_found", keep)
       ELSE IF Creator = u THEN Respond(p, q, "is_driver", keep)
       ELSE IF ride.seats_available <= 0 THEN Respond(p, q, "no_seats", keep)
       ELSE Goto(p, "join_exists", q, ride, 0)
    /\ UNCHANGED <<dbvars, histvars>>

\* Variant of JoinRide_Exists: the already-joined check is missing.
JoinRide_Exists_NoExistsCheck(p, keep) ==
    /\ pc[p] = "join_exists"
    /\ IF ~req[p].pickup_point THEN Respond(p, req[p], "no_pickup", keep)
       ELSE Goto(p, "join_save", req[p], local[p], 0)
    /\ UNCHANGED <<dbvars, histvars, issued>>

\* RidePassenger.objects.filter(...).exists(), then the pickup point check.
JoinRide_Exists(p, keep) ==
    /\ pc[p] = "join_exists"
    /\ IF passengers[req[p].user] # 0 THEN Respond(p, req[p], "already_joined", keep)
       ELSE IF ~req[p].pickup_point THEN Respond(p, req[p], "no_pickup", keep)
       ELSE Goto(p, "join_save", req[p], local[p], 0)
    /\ UNCHANGED <<dbvars, histvars, issued>>

\* ride.seats_available -= 1; ride.save()
JoinRide_Save(p) ==
    /\ pc[p] = "join_save"
    /\ LET r == [local[p] EXCEPT !.seats_available = @ - 1] IN
          /\ ride' = r
          /\ Goto(p, "join_create", req[p], r, 0)
    /\ UNCHANGED <<passengers, histvars, issued>>

\* What the notification of the creator does: the mail goes out, send_mail
\* fails (with fail_silently=True it returns 0), or building or sending the
\* message raises.
MailResults == {"sent", "failed", "raised"}

\* Variant of NotifyCreator: the exception of the notification is not caught.
NotifyCreator_Uncaught(mail) == IF mail = "raised" THEN "error" ELSE "joined"

\* try: send_mail(..., fail_silently=True) except Exception: pass, then the
\* success message and the redirect: the response of the join.
NotifyCreator(mail) ==
    CASE mail = "sent" -> "joined"
      [] mail = "failed" -> "joined"
      [] mail = "raised" -> "joined"

\* RidePassenger.objects.create(...): unique_together (user, ride) makes the
\* insert raise IntegrityError when the user already has a row.  The
\* notification follows the insert and reads nothing a later call depends on.
JoinRide_Create(p, keep) ==
    /\ pc[p] = "join_create"
    /\ IF passengers[req[p].user] # 0
       THEN /\ Respond(p, req[p], "integrity_error", keep)
            /\ UNCHANGED passengers
       ELSE /\ passengers' = [passengers EXCEPT ![req[p].user] = NextPk]
            /\ Respond(p, req[p], NotifyCreator(mailer), keep)
    /\ UNCHANGED <<ride, histvars, issued>>

\* ------------------------------------------------------------------------
\* leave_ride / cancel_ride
\* ------------------------------------------------------------------------
\* get_object_or_404(Ride)
LeaveRide_Get(p, u) ==
    /\ Accept(p)
    /\ Goto(p, "leave_first", Request("leave_ride", u, FALSE), ride, 0)
    /\ UNCHANGED <<dbvars, histvars>>

\* RidePassenger.objects.filter(...).first()
LeaveRide_First(p, keep) ==
    /\ pc[p] = "leave_first"
    /\ IF passengers[req[p].user] = 0 THEN Respond(p, req[p], "not_joined", keep)
       ELSE Goto(p, "leave_delete", req[p], local[p], passengers[req[p].user])
    /\ UNCHANGED <<dbvars, histvars, issued>>

\* Variant of LeaveRide_Delete: every passenger row of the ride is deleted.
LeaveRide_Delete_AllRows(p) ==
    /\ pc[p] = "leave_delete"
    /\ passengers' = [u \in Users |-> 0]
    /\ Goto(p, "leave_save", req[p], local[p], 0)
    /\ UNCHANGED <<ride, histvars, issued>>

\* passenger.delete(): deletes the row with the fetched pk, if it is still there.
LeaveRide_Delete(p) ==
    /\ pc[p] = "leave_delete"
    /\ passengers' = [passengers EXCEPT ![req[p].user] =
                          IF @ = fetched[p] THEN 0 ELSE @]
    /\ Goto(p, "leave_save", req[p], local[p], 0)
    /\ UNCHANGED <<ride, histvars, issued>>

\* Variant of LeaveRide_Save: the seat is not given back.
LeaveRide_Save_NoIncrement(p, keep) ==
    /\ pc[p] = "leave_save"
    /\ ride' = local[p]
    /\ Respond(p, req[p], "left", keep)
    /\ UNCHANGED <<passengers, histvars, issued>>

\* ride.seats_available += 1; ride.save()
LeaveRide_Save(p, keep) ==
    /\ pc[p] = "leave_save"
    /\ ride' = [local[p] EXCEPT !.seats_available = @ + 1]
    /\ Respond(p, req[p], "left", keep)
    /\ UNCHANGED <<passengers, histvars, issued>>

\* ------------------------------------------------------------------------
\* The four confirmation views
\* ------------------------------------------------------------------------
\* The flag a confirmation view sets.
FlagOf(view) ==
    CASE view = "driver_start_ride"         -> "driver_started"
      [] view = "passenger_confirm_start"   -> "passenger_started"
      [] view = "driver_end_ride"           -> "driver_ended"
      [] view = "passenger_confirm_arrival" -> "passenger_ended"

\* The status a confirmation view requires.
StatusFor(view) ==
    IF view \in {"driver_start_ride", "passenger_confirm_start"}
    THEN "created" ELSE "started"

\* Variant of ConfirmRefusal: the already-confirmed check is missing.
ConfirmRefusal_NoFlagCheck(view, r) ==
    IF r.ride_status # StatusFor(view) THEN "wrong_status"
    ELSE "none"

\* Variant of ConfirmRefusal: the already-confirmed check comes first.
ConfirmRefusal_FlagFirst(view, r) ==
    IF r[FlagOf(view)] THEN "already_confirmed"
    ELSE IF r.ride_status # StatusFor(view) THEN "wrong_status"
    ELSE "none"

\* The status check and the already-confirmed check, in the order of the view.
ConfirmRefusal(view, r) ==
    IF r.ride_status # StatusFor(view) THEN "wrong_status"
    ELSE IF r[FlagOf(view)] THEN "already_confirmed"
    ELSE "none"

\* driver_start_ride / driver_end_ride up to the first write:
\* get_object_or_404(Ride), the creator check, the status and flag checks.
DriverConfirm_Get(p, view, u, keep) ==
    LET q == Request(view, u, FALSE) IN
    /\ Accept(p)
    /\ IF Creator # u THEN Respond(p, q, "forbidden", keep)
       ELSE IF ConfirmRefusal(view, ride) # "none"
       THEN Respond(p, q, ConfirmRefusal(view, ride), keep)
       ELSE Goto(p, "confirm_save", q, ride, 0)
    /\ UNCHANGED <<dbvars, histvars>>

driver_start_ride(p, u, keep) == DriverConfirm_Get(p, "driver_start_ride", u, keep)

driver_end_ride(p, u, keep) == DriverConfirm_Get(p, "driver_end_ride", u, keep)

\* passenger_confirm_start / passenger_confirm_arrival: get_object_or_404(Ride)
PassengerConfirm_Get(p, view, u) ==
    /\ Accept(p)
    /\ Goto(p, "confirm_first", Request(view, u, FALSE), ride, 0)
    /\ UNCHANGED <<dbvars, histvars>>

passenger_confirm_start(p, u) == PassengerConfirm_Get(p, "passenger_confirm_start", u)

passenger_confirm_arrival(p, u) == PassengerConfirm_Get(p, "passenger_confirm_arrival", u)

\* Variant of PassengerConfirm_First: the status and flag checks come before
\* the passenger check.
PassengerConfirm_First_StatusFirst(p, keep) ==
    /\ pc[p] = "confirm_first"
    /\ IF ConfirmRefusal(req[p].view, local[p]) # "none"
       THEN Respond(p, req[p], ConfirmRefusal(req[p].view, local[p]), keep)
       ELSE IF passengers[req[p].user] = 0 THEN Respond(p, req[p], "forbidden", keep)
       ELSE Goto(p, "confirm_save", req[p], local[p], 0)
    /\ UNCHANGED <<dbvars, histvars, issued>>

\* Variant of PassengerConfirm_First: the status and flag checks are missing.
PassengerConfirm_First_NoRefusal(p, keep) ==
    /\ pc[p] = "confirm_first"
    /\ IF passengers[req[p].user] = 0 THEN Respond(p, req[p], "forbidden", keep)
       ELSE Goto(p, "confirm_save", req[p], local[p], 0)
    /\ UNCHANGED <<dbvars, histvars, issued>>

\* RidePassenger.objects.filter(...).first(), then the status and flag
\* checks on the in-memory row.
PassengerConfirm_First(p, keep) ==
    /\ pc[p] = "confirm_first"
    /\ IF passengers[req[p].user] = 0 THEN Respond(p, req[p], "forbidden", keep)
       ELSE IF ConfirmRefusal(req[p].view, local[p]) # "none"
       THEN Respond(p, req[p], ConfirmRefusal(req[p].view, local[p]), keep)
       ELSE Goto(p, "confirm_save", req[p], local[p], 0)
    /\ UNCHANGED <<dbvars, histvars, issued>>

\* ride.<flag> = True; ride.save().  check_and_update_status then either
\* returns None (the view answers "waiting for the other side") or has a
\* second save to make.
Confirm_Save(p, keep) ==
    /\ pc[p] = "confirm_save"
    /\ LET r == [local[p] EXCEPT ![FlagOf(req[p].view)] = TRUE] IN
          /\ ride' = r
          /\ IF check_and_update_status(r) = r.ride_status
             THEN Respond(p, req[p], "confirmed", keep)
             ELSE Goto(p, "confirm_status", req[p], r, 0)
    /\ UNCHANGED <<passengers, histvars, issued>>

\* Variant of Confirm_Status: the new status is not saved.
Confirm_Status_NotSaved(p, keep) ==
    /\ pc[p] = "confirm_status"
    /\ ride' = ride
    /\ Respond(p, req[p], check_and_update_status(local[p]), keep)
    /\ UNCHANGED <<passengers, histvars, issued>>

\* check_and_update_status: self.ride_status = ...; self.save()
Confirm_Status(p, keep) ==
    /\ pc[p] = "confirm_status"
    /\ LET s == check_and_update_status(local[p]) IN
          /\ ride' = [local[p] EXCEPT !.ride_status = s]
          /\ Respond(p, req[p], s, keep)
    /\ UNCHANGED <<passengers, histvars, issued>>

\* ------------------------------------------------------------------------
\* delete_ride
\* ------------------------------------------------------------------------
\* get_object_or_404(Ride) and the creator check.
DeleteRide_Get(p, u, keep) ==
    LET q == Request("delete_ride", u, FALSE) IN
    /\ Accept(p)
    /\ IF ~ride_exists THEN Respond(p, q, "not_found", keep)
       ELSE IF Creator # u THEN Respond(p, q, "forbidden", keep)
       ELSE Goto(p, "delete_count", q, ride, 0)
    /\ UNCHANGED <<dbvars, histvars>>

\* ride.passengers.count() and the refusal of a ride with passengers.
DeleteRide_Count(p, keep) ==
    /\ pc[p] = "delete_count"
    /\ IF Joined # {} THEN Respond(p, req[p], "has_passengers", keep)
       ELSE Goto(p, "delete_delete", req[p], local[p], 0)
    /\ UNCHANGED <<dbvars, histvars, issued>>

\* ride.delete(): the Ride row goes, and with it (on_delete=CASCADE) every
\* RidePassenger row and every LiveLocation row that references the ride.
DeleteRide_Delete(p, keep) ==
    /\ pc[p] = "delete_delete"
    /\ ride_exists' = FALSE
    /\ passengers' = [u \in Users |-> 0]
    /\ locations' = [u \in Users |->
                       IF locations[u].ride = "this" THEN NoLocation ELSE locations[u]]
    /\ Respond(p, req[p], "deleted", keep)
    /\ UNCHANGED <<ride, verified, ride0, passengers0, shown, locations0, mailer,
                   issued, footprint, clock, otp_sent_at>>

\* ------------------------------------------------------------------------
\* admin_cancel_ride
\* ------------------------------------------------------------------------
\* get_object_or_404(Ride) and the refusal of a completed ride; u is the
\* staff member.
AdminCancel_Get(p, u, keep) ==
    LET q == Request("admin_cancel_ride", u, FALSE) IN
    /\ Accept(p)
    /\ IF ~ride_exists THEN Respond(p, q, "not_found", keep)
       ELSE IF ride.ride_status = "completed" THEN Respond(p, q, "refused", keep)
       ELSE Goto(p, "cancel_delete", q, ride, 0)
    /\ UNCHANGED <<dbvars, histvars>>

\* Variant of AdminCancel_Delete: only the Ride row is deleted.
AdminCancel_Delete_NoCascade(p, keep) ==
    /\ pc[p] = "cancel_delete"
    /\ ride_exists' = FALSE
    /\ Respond(p, req[p], "cancelled", keep)
    /\ UNCHANGED <<dbvars, locations, verified, ride0, passengers0, shown, locations0,
                   mailer, issued, footprint, clock, otp_sent_at>>

\* ride.delete(): the Ride row goes, and with it (on_delete=CASCADE) every
\* RidePassenger row and every LiveLocation row that references the ride.
AdminCancel_Delete(p, keep) ==
    /\ pc[p] = "cancel_delete"
    /\ ride_exists' = FALSE
    /\ passengers' = [u \in Users |-> 0]
    /\ locations' = [u \in Users |->
                       IF locations[u].ride = "this" THEN NoLocation ELSE locations[u]]
    /\ Respond(p, req[p], "cancelled", keep)
    /\ UNCHANGED <<ride, verified, ride0, passengers0, shown, locations0, mailer,
                   issued, footprint, clock, otp_sent_at>>

\* ------------------------------------------------------------------------
\* Live location: update_location, get_location, stop_location_sharing
\* ------------------------------------------------------------------------
\* What the location views leave alone.
locframe == <<dbvars, verified, ride0, passengers0, locations0, ride_exists,
              mailer, footprint, clock, otp_sent_at>>

\* A location request.  ride is the ride_id sent, coords the latitude and
\* longitude sent: a position, or "missing" (a field is absent) or "invalid"
\* (float() raises ValueError); target is the user_id of get_location.
LocationRequest(view, u, rideref, target, coords, sharing) ==
    [view |-> view, user |-> u, pickup_point |-> FALSE, ride |-> rideref,
     target |-> target, coords |-> coords, is_sharing |-> sharing]

\* update_location: the input checks, then get_object_or_404(Ride), whose
\* Http404 the view's except Exception turns into a 500.
UpdateLocation_Get(p, u, rideref, coords, sharing, keep) ==
    LET q == LocationRequest("update_location", u, rideref, u, coords, sharing) IN
    /\ Accept(p)
    /\ IF coords = "missing" THEN Respond(p, q, "missing_fields", keep)
       ELSE IF coords = "invalid" THEN Respond(p, q, "invalid_coordinates", keep)
       ELSE IF rideref = "this" /\ ~ride_exists THEN Respond(p, q, "server_error", keep)
       ELSE Goto(p, "loc_exists", q, ride, 0)
    /\ UNCHANGED <<locframe, locations, shown>>

\* Variant of UpdateLocation_Exists: the passenger check is missing.
UpdateLocation_Exists_NoPassengerCheck(p, keep) ==
    /\ pc[p] = "loc_exists"
    /\ Goto(p, "loc_write", req[p], local[p], 0)
    /\ UNCHANGED <<locframe, issued, locations, shown>>

\* RidePassenger.objects.filter(ride=ride, user=request.user).exists().  The
\* passenger table of another ride is not modelled: the user is on it or not.
UpdateLocation_Exists(p, keep) ==
    /\ pc[p] = "loc_exists"
    /\ \E elsewhere \in BOOLEAN :
          LET is_passenger == IF req[p].ride = "this"
                              THEN passengers[req[p].user] # 0
                              ELSE elsewhere
          IN IF ~is_passenger THEN Respond(p, req[p], "forbidden", keep)
             ELSE Goto(p, "loc_write", req[p], local[p], 0)
    /\ UNCHANGED <<locframe, issued, locations, shown>>

\* Variant of UpdateLocation_Write: an existing row keeps its ride.
UpdateLocation_Write_KeepsRide(p, keep) ==
    /\ pc[p] = "loc_write"
    /\ locations' = [locations EXCEPT ![req[p].user] =
                        [ride |-> IF @ = NoLocation THEN req[p].ride ELSE @.ride,
                         position |-> req[p].coords,
                         is_sharing |-> req[p].is_sharing]]
    /\ Respond(p, req[p], "updated", keep)
    /\ UNCHANGED <<locframe, issued, shown>>

\* LiveLocation.objects.update_or_create(user=request.user, defaults={...})
UpdateLocation_Write(p, keep) ==
    /\ pc[p] = "loc_write"
    /\ locations' = [locations EXCEPT ![req[p].user] =
                        [ride |-> req[p].ride, position |-> req[p].coords,
                         is_sharing |-> req[p].is_sharing]]
    /\ Respond(p, req[p], "updated", keep)
    /\ UNCHANGED <<locframe, issued, shown>>

\* Variant of GetLocation_Get: the creator check is missing.
GetLocation_Get_NoCreatorCheck(p, u, target, keep) ==
    LET q == LocationRequest("get_location", u, "this", target, NoPosition, FALSE) IN
    /\ Accept(p)
    /\ shown' = [shown EXCEPT ![p] = NoPosition]
    /\ Goto(p, "getloc_exists", q, ride, 0)
    /\ UNCHANGED <<locframe, locations>>

\* get_location: get_object_or_404(Ride) and the creator check.
GetLocation_Get(p, u, target, keep) ==
    LET q == LocationRequest("get_location", u, "this", target, NoPosition, FALSE) IN
    /\ Accept(p)
    /\ shown' = [shown EXCEPT ![p] = NoPosition]
    /\ IF Creator # u THEN Respond(p, q, "forbidden", keep)
       ELSE Goto(p, "getloc_exists", q, ride, 0)
    /\ UNCHANGED <<locframe, locations>>

\* get_object_or_404(User), then
\* RidePassenger.objects.filter(ride=ride, user=passenger_user).exists()
GetLocation_Exists(p, keep) ==
    /\ pc[p] = "getloc_exists"
    /\ IF passengers[req[p].target] = 0 THEN Respond(p, req[p], "not_passenger", keep)
       ELSE Goto(p, "getloc_row", req[p], local[p], 0)
    /\ UNCHANGED <<locframe, issued, locations, shown>>

\* Variant of GetLocation_Row: the ride=ride filter is missing.
GetLocation_Row_NoRideFilter(p, keep) ==
    /\ pc[p] = "getloc_row"
    /\ LET row == locations[req[p].target] IN
          IF row.is_sharing
          THEN /\ shown' = [shown EXCEPT ![p] = row.position]
               /\ Respond(p, req[p], "location", keep)
          ELSE /\ shown' = shown
               /\ Respond(p, req[p], "not_available", keep)
    /\ UNCHANGED <<locframe, issued, locations>>

\* Variant of GetLocation_Row: the is_sharing=True filter is missing.
GetLocation_Row_NoSharingFilter(p, keep) ==
    /\ pc[p] = "getloc_row"
    /\ LET row == locations[req[p].target] IN
          IF row.ride = "this"
          THEN /\ shown' = [shown EXCEPT ![p] = row.position]
               /\ Respond(p, req[p], "location", keep)
          ELSE /\ shown' = shown
               /\ Respond(p, req[p], "not_available", keep)
    /\ UNCHANGED <<locframe, issued, locations>>

\* LiveLocation.objects.get(user=passenger_user, ride=ride, is_sharing=True):
\* the coordinates of the row, or DoesNotExist.
GetLocation_Row(p, keep) ==
    /\ pc[p] = "getloc_row"
    /\ LET row == locations[req[p].target] IN
          IF row.ride = "this" /\ row.is_sharing
          THEN /\ shown' = [shown EXCEPT ![p] = row.position]
               /\ Respond(p, req[p], "location", keep)
          ELSE /\ shown' = shown
               /\ Respond(p, req[p], "not_available", keep)
    /\ UNCHANGED <<locframe, issued, locations>>

\* Variant of stop_location_sharing: the delete is not filtered by user.
stop_location_sharing_AllRows(p, u, keep) ==
    LET q == LocationRequest("stop_location_sharing", u, "this", u, NoPosition, FALSE) IN
    /\ Accept(p)
    /\ locations' = [v \in Users |-> NoLocation]
    /\ Respond(p, q, IF locations[u] # NoLocation THEN "stopped" ELSE "nothing_to_stop", keep)
    /\ UNCHANGED <<locframe, shown>>

\* stop_location_sharing: LiveLocation.objects.filter(user=request.user).delete()
stop_location_sharing(p, u, keep) ==
    LET q == LocationRequest("stop_location_sharing", u, "this", u, NoPosition, FALSE) IN
    /\ Accept(p)
    /\ locations' = [locations EXCEPT ![u] = NoLocation]
    /\ Respond(p, q, IF locations[u] # NoLocation THEN "stopped" ELSE "nothing_to_stop", keep)
    /\ UNCHANGED <<locframe, shown>>

\* ------------------------------------------------------------------------
\* Specifications
\* ------------------------------------------------------------------------
\* A worker takes a new request.
Begin(p, keep) ==
    \/ \E u \in Users, pickup \in BOOLEAN : JoinRide_Get(p, u, pickup, keep)
    \/ \E u \in Users : LeaveRide_Get(p, u)
    \/ \E u \in Users : driver_start_ride(p, u, keep)
    \/ \E u \in Users : passenger_confirm_start(p, u)
    \/ \E u \in Users : driver_end_ride(p, u, keep)
    \/ \E u \in Users : passenger_confirm_arrival(p, u)

\* A worker makes the next database call of the view it is in.
Continue(p, keep) ==
    \/ JoinRide_Exists(p, keep)
    \/ JoinRide_Save(p)
    \/ JoinRide_Create(p, keep)
    \/ LeaveRide_First(p, keep)
    \/ LeaveRide_Delete(p)
    \/ LeaveRide_Save(p, keep)
    \/ PassengerConfirm_First(p, keep)
    \/ Confirm_Save(p, keep)
    \/ Confirm_Status(p, keep)

IdleWorkers ==
    /\ pc = [p \in Workers |-> "idle"]
    /\ req = [p \in Workers |-> NoRequest]
    /\ local = [p \in Workers |-> NoRide]
    /\ fetched = [p \in Workers |-> 0]
    /\ outcome = [p \in Workers |-> "none"]
    /\ issued = 0
    /\ locations = [u \in Users |-> NoLocation]
    /\ locations0 = locations
    /\ shown = [p \in Workers |-> NoPosition]
    /\ footprint = NoFootprint
    /\ clock = 0

\* The state after create_ride: total_seats < 1 is refused, nobody has
\* joined, and the creator had to be verified.
Created(total_seats) ==
    /\ ride = NewRide(total_seats)
    /\ passengers = [u \in Users |-> 0]
    /\ ride_exists = TRUE
    /\ otp_sent_at = [u \in Users |-> NoTime]
    /\ IdleWorkers
    /\ ride0 = ride
    /\ passengers0 = {}

\* Concurrent requests on a new ride.  Two workers serve requests, each
\* taking the next one while the other is anywhere inside its view;
\* MaxRequests requests are accepted in all and no response is recorded.
\* Every user is verified.  A request that is refused whatever the database
\* holds (a join by an unverified user, by the creator or without a pickup
\* point, a leave or passenger confirmation by the creator, a driver
\* confirmation by another user) writes nothing, and with no response on
\* record it leaves no trace: these requests are left to SpecSeq and
\* SpecBatch.
Init ==
    /\ \E total_seats \in 1..MaxSeatsRace : Created(total_seats)
    /\ verified = Users
    /\ mailer = "sent"

BeginWriter(p) ==
    \/ \E u \in Riders : JoinRide_Get(p, u, TRUE, FALSE)
    \/ \E u \in Riders : LeaveRide_Get(p, u)
    \/ driver_start_ride(p, Creator, FALSE)
    \/ \E u \in Riders : passenger_confirm_start(p, u)
    \/ driver_end_ride(p, Creator, FALSE)
    \/ \E u \in Riders : passenger_confirm_arrival(p, u)

Next ==
    \E p \in 1..2 : (issued < MaxRequests /\ BeginWriter(p)) \/ Continue(p, FALSE)

Spec == Init /\ [][Next]_vars

\* One request at a time on a new ride: a single worker serves every
\* request, and keeps the last answer on record.
InitSeq ==
    /\ \E total_seats \in 1..MaxSeats : Created(total_seats)
    /\ verified \in {S \in SUBSET Users : Creator \in S}
    /\ mailer = "sent"

NextSeq == Begin(1, TRUE) \/ Continue(1, TRUE)

SpecSeq == InitSeq /\ [][NextSeq]_vars

\* ------------------------------------------------------------------------
\* A batch of overlapping requests
\* ------------------------------------------------------------------------
\* The ride between requests, as create_ride followed by joins and
\* confirmations served one at a time leave it: the users in pre hold a
\* passenger row (only verified users other than the creator can get one,
\* and only while a seat is left), and the ride is new, has the driver's
\* start confirmation, or is started (which takes a passenger's confirmation,
\* hence total_seats >= 2 and a verified user besides the creator).
Stages == {"new", "driver_started", "started"}

StagedRide(total_seats, pre, stage) ==
    [NewRide(total_seats) EXCEPT
        !.seats_available = @ - Cardinality(pre),
        !.driver_started = (stage # "new"),
        !.passenger_started = (stage = "started"),
        !.ride_status = IF stage = "started" THEN "started" ELSE "created"]

InitBatch ==
    /\ verified \in {S \in SUBSET Users : Creator \in S}
    /\ \E total_seats \in 1..MaxSeats, stage \in Stages :
       \E pre \in SUBSET (verified \ {Creator}) :
          /\ Cardinality(pre) <= total_seats - 1
          /\ stage = "started" => (total_seats >= 2 /\ verified # {Creator})
          /\ ride = StagedRide(total_seats, pre, stage)
          /\ passengers = [u \in Users |->
                             IF u \in pre THEN Cardinality({v \in pre : v <= u}) ELSE 0]
          /\ passengers0 = pre
    /\ ride0 = ride
    /\ ride_exists = TRUE
    /\ mailer = "sent"
    /\ otp_sent_at = [u \in Users |-> NoTime]
    /\ IdleWorkers

\* Every worker serves at most one request; the requests overlap in every
\* possible way and each worker keeps its answer on record.
NextBatch ==
    \E p \in Workers : (pc[p] = "idle" /\ Begin(p, TRUE)) \/ Continue(p, TRUE)

SpecBatch == InitBatch /\ [][NextBatch]_vars

\* ------------------------------------------------------------------------
\* Join, join, leave, join
\* ------------------------------------------------------------------------
\* Four requests on a new ride, one after the other: a join by some user, a
\* join by some user, a leave by the first user, a join by the second.  The
\* first and the third are served by worker 1, the second and the fourth by
\* worker 2, so that each worker's record names the user of its requests;
\* issued is the number of requests made so far.
InitScenario ==
    /\ \E total_seats \in 1..MaxSeats : Created(total_seats)
    /\ verified = Users
    /\ mailer \in MailResults

NextScenario ==
    \/ /\ issued = 0
       /\ \E u \in Users : JoinRide_Get(1, u, TRUE, TRUE)
    \/ /\ issued = 1 /\ pc[1] = "done"
       /\ \E u \in Users : JoinRide_Get(2, u, TRUE, TRUE)
    \/ /\ issued = 2 /\ pc[2] = "done"
       /\ LeaveRide_Get(1, req[1].user)
    \/ /\ issued = 3 /\ pc[1] = "done"
       /\ JoinRide_Get(2, req[2].user, TRUE, TRUE)
    \/ \E p \in 1..2 :
          \/ JoinRide_Exists(p, TRUE)
          \/ JoinRide_Save(p)
          \/ JoinRide_Create(p, TRUE)
          \/ LeaveRide_First(p, TRUE)
          \/ LeaveRide_Delete(p)
          \/ LeaveRide_Save(p, TRUE)

SpecScenario == InitScenario /\ [][NextScenario]_vars

\* ------------------------------------------------------------------------
\* One location request
\* ------------------------------------------------------------------------
\* The ride and the location table between requests, as joins, leaves and
\* location requests served one at a time leave them: the users in pre hold
\* a passenger row; a user other than the creator may hold a location row,
\* for another ride or, if the ride ever had a seat to give, for this ride
\* (sent while the user was a passenger, and kept after a leave).  The
\* creator is taken to be on no other ride and holds no row.
LocationRows(total_seats) ==
    {NoLocation} \cup
    [ride : IF total_seats >= 2 THEN RideRefs ELSE {"other"},
     position : Positions, is_sharing : BOOLEAN]

InitLoc ==
    /\ verified = Users
    /\ \E total_seats \in 1..MaxSeats, pre \in SUBSET Riders :
          /\ Cardinality(pre) <= total_seats - 1
          /\ ride = StagedRide(total_seats, pre, "new")
          /\ passengers = [u \in Users |->
                             IF u \in pre THEN Cardinality({v \in pre : v <= u}) ELSE 0]
          /\ passengers0 = pre
          /\ locations \in {t \in [Users -> LocationRows(total_seats)] :
                               t[Creator] = NoLocation}
    /\ ride0 = ride
    /\ pc = [p \in Workers |-> "idle"]
    /\ req = [p \in Workers |-> NoRequest]
    /\ local = [p \in Workers |-> NoRide]
    /\ fetched = [p \in Workers |-> 0]
    /\ outcome = [p \in Workers |-> "none"]
    /\ issued = 0
    /\ shown = [p \in Workers |-> NoPosition]
    /\ locations0 = locations
    /\ ride_exists = TRUE
    /\ mailer = "sent"
    /\ footprint = NoFootprint
    /\ clock = 0
    /\ otp_sent_at = [u \in Users |-> NoTime]

\* A worker takes a location request.
BeginLoc(p, keep) ==
    \/ \E u \in Users, coords \in Positions \cup {"missing", "invalid"},
          sharing \in BOOLEAN :
          UpdateLocation_Get(p, u, "this", coords, sharing, keep)
    \/ \E u \in Riders, coords \in Positions, sharing \in BOOLEAN :
          UpdateLocation_Get(p, u, "other", coords, sharing, keep)
    \/ \E u \in Users, target \in Users : GetLocation_Get(p, u, target, keep)
    \/ \E u \in Users : stop_location_sharing(p, u, keep)

ContinueLoc(p, keep) ==
    \/ UpdateLocation_Exists(p, keep)
    \/ UpdateLocation_Write(p, keep)
    \/ GetLocation_Exists(p, keep)
    \/ GetLocation_Row(p, keep)

\* One worker serves one location request and keeps its answer on record.
NextLoc == (pc[1] = "idle" /\ BeginLoc(1, TRUE)) \/ ContinueLoc(1, TRUE)

SpecLoc == InitLoc /\ [][NextLoc]_vars

\* ------------------------------------------------------------------------
\* Confirmations on a ride with location rows
\* ------------------------------------------------------------------------
\* From a ride and a location table as joins, leaves and location requests
\* leave them, one worker serves confirmation requests one at a time, up to
\* the completion of the ride.
NextTrip ==
    \/ \E u \in Users : driver_start_ride(1, u, TRUE)
    \/ \E u \in Users : passenger_confirm_start(1, u)
    \/ \E u \in Users : driver_end_ride(1, u, TRUE)
    \/ \E u \in Users : passenger_confirm_arrival(1, u)
    \/ PassengerConfirm_First(1, TRUE)
    \/ Confirm_Save(1, TRUE)
    \/ Confirm_Status(1, TRUE)

SpecTrip == InitLoc /\ [][NextTrip]_vars

\* ------------------------------------------------------------------------
\* Deleting a ride while users join
\* ------------------------------------------------------------------------
\* Every worker serves at most one request, a delete_ride or a join_ride,
\* and the requests overlap in every possible way.  The behaviour is followed
\* up to the removal of the Ride row: what a view still in flight does with a
\* ride that is gone is not modelled.
NextDelete ==
    \E p \in Workers :
        \/ /\ pc[p] = "idle" /\ ride_exists
           /\ \E u \in Users : DeleteRide_Get(p, u, TRUE)
        \/ /\ pc[p] = "idle" /\ ride_exists
           /\ \E u \in Users, pickup \in BOOLEAN : JoinRide_Get(p, u, pickup, TRUE)
        \/ ride_exists /\ DeleteRide_Count(p, TRUE)
        \/ ride_exists /\ DeleteRide_Delete(p, TRUE)
        \/ ride_exists /\ JoinRide_Exists(p, TRUE)
        \/ ride_exists /\ JoinRide_Save(p)
        \/ ride_exists /\ JoinRide_Create(p, TRUE)

SpecDelete == InitBatch /\ [][NextDelete]_vars

\* ------------------------------------------------------------------------
\* From verification to the start of the ride
\* ------------------------------------------------------------------------
\* No ride yet and any set of verified users.  One worker serves, one
\* request at a time, verifications, creations, joins and start
\* confirmations; a confirmation names a ride that exists.
InitGate ==
    /\ ride = NoRide
    /\ ride_exists = FALSE
    /\ passengers = [u \in Users |-> 0]
    /\ verified \in SUBSET Users
    /\ otp_sent_at = [u \in Users |-> IF u \in verified THEN NoTime ELSE 0]
    /\ mailer = "sent"
    /\ IdleWorkers
    /\ ride0 = ride
    /\ passengers0 = {}

NextGate ==
    \/ \E u \in Users, success \in BOOLEAN : aadhaar_submit_otp(1, u, success, TRUE)
    \/ \E u \in Users, total_seats \in 0..MaxSeats : create_ride(1, u, total_seats, TRUE)
    \/ \E u \in Users, pickup \in BOOLEAN : JoinRide_Get(1, u, pickup, TRUE)
    \/ ride_exists /\ \E u \in Users : driver_start_ride(1, u, TRUE)
    \/ ride_exists /\ \E u \in Users : passenger_confirm_start(1, u)
    \/ JoinRide_Exists(1, TRUE)
    \/ JoinRide_Save(1)
    \/ JoinRide_Create(1, TRUE)
    \/ PassengerConfirm_First(1, TRUE)
    \/ Confirm_Save(1, TRUE)
    \/ Confirm_Status(1, TRUE)

SpecGate == InitGate /\ [][NextGate]_vars

\* ------------------------------------------------------------------------
\* The dashboard's ride summary
\* ------------------------------------------------------------------------
\* The Ride row after create_ride and k joins served one at a time: every
\* join saves the row with one seat less.
RECURSIVE AfterJoins(_, _)
AfterJoins(r, k) ==
    IF k = 0 THEN r
    ELSE AfterJoins([r EXCEPT !.seats_available = @ - 1], k - 1)

\* dashboard: calculate_co2 on the distance, the vehicle type and the
\* occupant_count of a ride, here of a ride created with total_seats seats
\* that k passengers have joined.
dashboard(distance_km, vehicle_type, total_seats, k) ==
    /\ footprint' =
          LET r == AfterJoins(NewRide(total_seats), k)
              co2 == calculate_co2(distance_km, vehicle_type, occupant_count(r))
          IN [distance_km |-> distance_km, vehicle_type |-> vehicle_type,
              total_seats |-> total_seats, joined |-> k,
              solo |-> co2.solo, shared |-> co2.shared, saved |-> co2.saved]
    /\ UNCHANGED <<dbvars, verified, pc, req, local, fetched, outcome, issued,
                   ride0, passengers0, locations, shown, locations0,
                   ride_exists, mailer, clock, otp_sent_at>>

\* Summaries of rides of every distance, vehicle type, size and occupancy.
NextCo2 ==
    \E distance_km \in 1..MaxDistance, vehicle_type \in VehicleTypes,
       total_seats \in 1..MaxCarSeats :
       \E k \in 0..(total_seats - 1) :
          dashboard(distance_km, vehicle_type, total_seats, k)

SpecCo2 == InitGate /\ [][NextCo2]_vars

\* ------------------------------------------------------------------------
\* Identity verification over time
\* ------------------------------------------------------------------------
\* Nobody is verified and no code is pending.  One worker serves, one
\* request at a time, the requests for a code, the code-entry page and the
\* submission of a code, while time passes.
InitOtp ==
    /\ ride = NoRide
    /\ ride_exists = FALSE
    /\ passengers = [u \in Users |-> 0]
    /\ verified = {}
    /\ otp_sent_at = [u \in Users |-> NoTime]
    /\ mailer = "sent"
    /\ IdleWorkers
    /\ ride0 = ride
    /\ passengers0 = {}

NextOtp ==
    \/ Tick
    \/ \E u \in Users, form \in {"incomplete", "sent", "failed"} :
          aadhaar_send_otp(1, u, form, TRUE)
    \/ \E u \in Users : aadhaar_verify_otp(1, u, TRUE)
    \/ \E u \in Users, success \in BOOLEAN : aadhaar_submit_otp(1, u, success, TRUE)

SpecOtp == InitOtp /\ [][NextOtp]_vars

\* ------------------------------------------------------------------------
\* Two passengers confirm
\* ------------------------------------------------------------------------
\* A ride with two or more passengers that is new, has the driver's start
\* confirmation, is started, or is started and has the driver's end
\* confirmation.  Worker 1 serves a confirmation of one passenger; when it
\* is answered, worker 2 serves a confirmation of a passenger.
PairStages == {"new", "driver_started", "started", "driver_ended"}

PairRide(total_seats, pre, stage) ==
    IF stage = "driver_ended"
    THEN [StagedRide(total_seats, pre, "started") EXCEPT !.driver_ended = TRUE]
    ELSE StagedRide(total_seats, pre, stage)

PassengerViews == {"passenger_confirm_start", "passenger_confirm_arrival"}

InitPair ==
    /\ verified = Users
    /\ \E total_seats \in 3..MaxSeats, stage \in PairStages :
       \E pre \in SUBSET Riders :
          /\ Cardinality(pre) >= 2
          /\ Cardinality(pre) <= total_seats - 1
          /\ ride = PairRide(total_seats, pre, stage)
          /\ passengers = [u \in Users |->
                             IF u \in pre THEN Cardinality({v \in pre : v <= u}) ELSE 0]
          /\ passengers0 = pre
    /\ ride0 = ride
    /\ ride_exists = TRUE
    /\ mailer = "sent"
    /\ otp_sent_at = [u \in Users |-> NoTime]
    /\ IdleWorkers

NextPair ==
    \/ /\ issued = 0
       /\ \E u \in Joined, view \in PassengerViews : PassengerConfirm_Get(1, view, u)
    \/ /\ issued = 1 /\ pc[1] = "done"
       /\ \E u \in Joined, view \in PassengerViews : PassengerConfirm_Get(2, view, u)
    \/ \E p \in 1..2 :
          \/ PassengerConfirm_First(p, TRUE)
          \/ Confirm_Save(p, TRUE)
          \/ Confirm_Status(p, TRUE)

SpecPair == InitPair /\ [][NextPair]_vars

\* ------------------------------------------------------------------------
\* An administrative cancel and a later request
\* ------------------------------------------------------------------------
\* A ride with passengers and location rows that is new, started or
\* completed (the last two took a passenger, hence total_seats >= 2).
\* Worker 1 serves an admin_cancel_ride; when it is answered, worker 2 serves
\* one request that could write a row for the ride: a join, a location
\* update, or a stop of the sharing.
AdminStages == {"new", "started", "completed"}

AdminRide(total_seats, pre, stage) ==
    IF stage = "completed"
    THEN [StagedRide(total_seats, pre, "started") EXCEPT
             !.driver_ended = TRUE, !.passenger_ended = TRUE,
             !.ride_status = "completed"]
    ELSE StagedRide(total_seats, pre, stage)

InitAdmin ==
    /\ verified = Users
    /\ \E total_seats \in 1..MaxSeats, stage \in AdminStages :
       \E pre \in SUBSET Riders :
          /\ Cardinality(pre) <= total_seats - 1
          /\ stage # "new" => total_seats >= 2
          /\ ride = AdminRide(total_seats, pre, stage)
          /\ passengers = [u \in Users |->
                             IF u \in pre THEN Cardinality({v \in pre : v <= u}) ELSE 0]
          /\ passengers0 = pre
          /\ locations \in {t \in [Users -> LocationRows(total_seats)] :
                               t[Creator] = NoLocation}
    /\ ride0 = ride
    /\ pc = [p \in Workers |-> "idle"]
    /\ req = [p \in Workers |-> NoRequest]
    /\ local = [p \in Workers |-> NoRide]
    /\ fetched = [p \in Workers |-> 0]
    /\ outcome = [p \in Workers |-> "none"]
    /\ issued = 0
    /\ shown = [p \in Workers |-> NoPosition]
    /\ locations0 = locations
    /\ ride_exists = TRUE
    /\ mailer = "sent"
    /\ footprint = NoFootprint
    /\ clock = 0
    /\ otp_sent_at = [u \in Users |-> NoTime]

NextAdmin ==
    \/ /\ issued = 0
       /\ \E u \in Users : AdminCancel_Get(1, u, TRUE)
    \/ AdminCancel_Delete(1, TRUE)
    \/ /\ issued = 1 /\ pc[1] = "done"
       /\ \E u \in Riders : JoinRide_Get(2, u, TRUE, TRUE)
    \/ /\ issued = 1 /\ pc[1] = "done"
       /\ \E u \in Riders, coords \in Positions :
             UpdateLocation_Get(2, u, "this", coords, TRUE, TRUE)
    \/ /\ issued = 1 /\ pc[1] = "done"
       /\ \E u \in Riders : stop_location_sharing(2, u, TRUE)
    \/ JoinRide_Exists(2, TRUE)
    \/ JoinRide_Save(2)
    \/ JoinRide_Create(2, TRUE)
    \/ UpdateLocation_Exists(2, TRUE)
    \/ UpdateLocation_Write(2, TRUE)

SpecAdmin == InitAdmin /\ [][NextAdmin]_vars

\* ------------------------------------------------------------------------
\* Leave, rejoin, get_location
\* ------------------------------------------------------------------------
\* From a ride and a location table as earlier requests leave them, one
\* request after the other: a user leaves (worker 1), the same user joins
\* again (worker 2), and then either the creator asks for that user's
\* location (worker 1), or the user first sends an update_location for the
\* ride (worker 1) and the creator asks afterwards (worker 2).
NextRejoin ==
    \/ /\ issued = 0
       /\ \E u \in Riders : LeaveRide_Get(1, u)
    \/ /\ issued = 1 /\ pc[1] = "done"
       /\ JoinRide_Get(2, req[1].user, TRUE, TRUE)
    \/ /\ issued = 2 /\ pc[2] = "done"
       /\ GetLocation_Get(1, Creator, req[2].user, TRUE)
    \/ /\ issued = 2 /\ pc[2] = "done"
       /\ \E coords \in Positions, sharing \in BOOLEAN :
             UpdateLocation_Get(1, req[2].user, "this", coords, sharing, TRUE)
    \/ /\ issued = 3 /\ pc[1] = "done" /\ req[1].view = "update_location"
       /\ GetLocation_Get(2, Creator, req[1].user, TRUE)
    \/ LeaveRide_First(1, TRUE)
    \/ LeaveRide_Delete(1)
    \/ LeaveRide_Save(1, TRUE)
    \/ JoinRide_Exists(2, TRUE)
    \/ JoinRide_Save(2)
    \/ JoinRide_Create(2, TRUE)
    \/ UpdateLocation_Exists(1, TRUE)
    \/ UpdateLocation_Write(1, TRUE)
    \/ \E p \in 1..2 : GetLocation_Exists(p, TRUE)
    \/ \E p \in 1..2 : GetLocation_Row(p, TRUE)

SpecRejoin == InitLoc /\ [][NextRejoin]_vars

\* ------------------------------------------------------------------------
\* update_location for another ride, then get_location
\* ------------------------------------------------------------------------
\* From a ride and a location table as earlier requests leave them, one
\* request after the other: a user sends an update_location, for the ride or
\* for another one (worker 1); then either the creator asks for that user's
\* location (worker 2), or the user, having sent the update for the other
\* ride, first sends one for the ride (worker 2) and the creator asks
\* afterwards (worker 1).  At most one user holds a location row at the
\* start: the rows of the other users play no part in these requests.
InitElsewhere ==
    /\ InitLoc
    /\ Cardinality({u \in Users : locations[u] # NoLocation}) <= 1

NextElsewhere ==
    \/ /\ issued = 0
       /\ \E u \in Riders, rideref \in RideRefs, coords \in Positions,
             sharing \in BOOLEAN :
             UpdateLocation_Get(1, u, rideref, coords, sharing, TRUE)
    \/ /\ issued = 1 /\ pc[1] = "done"
       /\ GetLocation_Get(2, Creator, req[1].user, TRUE)
    \/ /\ issued = 1 /\ pc[1] = "done" /\ req[1].ride = "other"
       /\ \E coords \in Positions, sharing \in BOOLEAN :
             UpdateLocation_Get(2, req[1].user, "this", coords, sharing, TRUE)
    \/ /\ issued = 2 /\ pc[2] = "done" /\ req[2].view = "update_location"
       /\ GetLocation_Get(1, Creator, req[2].user, TRUE)
    \/ \E p \in 1..2 : UpdateLocation_Exists(p, TRUE)
    \/ \E p \in 1..2 : UpdateLocation_Write(p, TRUE)
    \/ \E p \in 1..2 : GetLocation_Exists(p, TRUE)
    \/ \E p \in 1..2 : GetLocation_Row(p, TRUE)

SpecElsewhere == InitElsewhere /\ [][NextElsewhere]_vars

\* ------------------------------------------------------------------------
\* The confirmations of a ride, each made once
\* ------------------------------------------------------------------------
\* A created ride with at least one passenger, with or without the driver's
\* start confirmation.  One worker serves one request at a time.  The driver
\* and a passenger each send their start confirmation while the ride is
\* created and theirs is not yet on the row, and their end confirmation
\* while the ride is started and theirs is not yet on the row; once the ride
\* is completed any user sends any confirmation.
JourneyStages == {"new", "driver_started"}

InitJourney ==
    /\ verified = Users
    /\ \E total_seats \in 2..MaxSeats, stage \in JourneyStages :
       \E pre \in SUBSET Riders :
          /\ pre # {}
          /\ Cardinality(pre) <= total_seats - 1
          /\ ride = StagedRide(total_seats, pre, stage)
          /\ passengers = [u \in Users |->
                             IF u \in pre THEN Cardinality({v \in pre : v <= u}) ELSE 0]
          /\ passengers0 = pre
    /\ ride0 = ride
    /\ ride_exists = TRUE
    /\ mailer = "sent"
    /\ otp_sent_at = [u \in Users |-> NoTime]
    /\ IdleWorkers

NextJourney ==
    \/ /\ ride.ride_status = "created" /\ ~ride.driver_started
       /\ driver_start_ride(1, Creator, TRUE)
    \/ /\ ride.ride_status = "created" /\ ~ride.passenger_started
       /\ \E u \in Joined : passenger_confirm_start(1, u)
    \/ /\ ride.ride_status = "started" /\ ~ride.driver_ended
       /\ driver_end_ride(1, Creator, TRUE)
    \/ /\ ride.ride_status = "started" /\ ~ride.passenger_ended
       /\ \E u \in Joined : passenger_confirm_arrival(1, u)
    \/ /\ ride.ride_status = "completed"
       /\ \E u \in Users, view \in ConfirmViews :
             IF view \in {"driver_start_ride", "driver_end_ride"}
             THEN DriverConfirm_Get(1, view, u, TRUE)
             ELSE PassengerConfirm_Get(1, view, u)
    \/ PassengerConfirm_First(1, TRUE)
    \/ Confirm_Save(1, TRUE)
    \/ Confirm_Status(1, TRUE)

\* Django runs a view it has entered to its response, and the driver and the
\* passenger do send the confirmation that is theirs to send: a step that
\* stays possible is taken.
SpecJourney == InitJourney /\ [][NextJourney]_vars /\ WF_vars(NextJourney)

\* ------------------------------------------------------------------------
\* A view run on its own
\* ------------------------------------------------------------------------
\* What request q does to the database db = [ride, joined] and answers when
\* no other request runs between its first and its last database call.
Serve(q, db) ==
    LET refuse(out) == [ride |-> db.ride, joined |-> db.joined, outcome |-> out]
        u == q.user
    IN
    IF q.view = "join_ride" THEN
        IF u \notin verified THEN refuse("verify_first")
        ELSE IF Creator = u THEN refuse("is_driver")
        ELSE IF db.ride.seats_available <= 0 THEN refuse("no_seats")
        ELSE IF u \in db.joined THEN refuse("already_joined")
        ELSE IF ~q.pickup_point THEN refuse("no_pickup")
        ELSE [ride |-> [db.ride EXCEPT !.seats_available = @ - 1],
              joined |-> db.joined \cup {u},
              outcome |-> "joined"]
    ELSE IF q.view = "leave_ride" THEN
        IF u \notin db.joined THEN refuse("not_joined")
        ELSE [ride |-> [db.ride EXCEPT !.seats_available = @ + 1],
              joined |-> db.joined \ {u},
              outcome |-> "left"]
    ELSE
        IF q.view \in {"driver_start_ride", "driver_end_ride"} /\ Creator # u
        THEN refuse("forbidden")
        ELSE IF q.view \in {"passenger_confirm_start", "passenger_confirm_arrival"}
                /\ u \notin db.joined
        THEN refuse("forbidden")
        ELSE IF ConfirmRefusal(q.view, db.ride) # "none"
        THEN refuse(ConfirmRefusal(q.view, db.ride))
        ELSE LET r == [db.ride EXCEPT ![FlagOf(q.view)] = TRUE]
                 s == check_and_update_status(r)
             IN [ride |-> [r EXCEPT !.ride_status = s],
                 joined |-> db.joined,
                 outcome |-> IF s = r.ride_status THEN "confirmed" ELSE s]

\* ------------------------------------------------------------------------
\* Properties
\* ------------------------------------------------------------------------
Rank(status) ==
    CASE status = "created" -> 0 [] status = "started" -> 1 [] status = "completed" -> 2

\* The workers that have taken a request.
Busy == {p \in Workers : pc[p] # "idle"}

\* Every request taken so far has been answered.
AllAnswered == \A p \in Workers : pc[p] \in {"idle", "done"}

\* C1: when N distinct eligible users (verified, not the creator, holding no
\* passenger row, pickup point given) send overlapping join requests for a
\* ride with seats_available = K, exactly min(N, K) of them are answered
\* "joined" and every other one is answered "no_seats".
ConcurrentJoinsFillExactly ==
    ( /\ Busy # {}
      /\ \A p \in Busy :
            /\ pc[p] = "done"
            /\ req[p].view = "join_ride"
            /\ req[p].pickup_point
            /\ req[p].user \in verified \ ({Creator} \cup passengers0)
      /\ \A p, w \in Busy : p # w => req[p].user # req[w].user )
    => /\ Cardinality({p \in Busy : outcome[p] = "joined"})
             = Min(Cardinality(Busy), ride0.seats_available)
       /\ \A p \in Busy : outcome[p] \in {"joined", "no_seats"}

\* C2: seats_available of the Ride row is never negative, whatever join,
\* leave and confirmation requests run and however they interleave.
SeatsNeverNegative == ride.seats_available >= 0

\* Two joins both passed the seats check on the last seat: more users hold a
\* row than there were seats, and seats_available stands at 0.
LastSeatTakenTwice ==
    /\ ride.seats_available = 0
    /\ Cardinality(Joined) > ride0.seats_available

\* C3: seats_available never exceeds total_seats, whatever join and leave
\* requests run, overlapping or not.
SeatsNeverExceedTotal == ride.seats_available <= ride.total_seats

JoinIsOneStep ==
    \A p \in Workers : ~(pc[p] = "join_create" /\ passengers[req[p].user] = 0)

\* C6: no step moves ride_status backward, also not the save() of a join,
\* leave or confirmation that read the ride before a status transition.
StatusNeverMovesBackward ==
    [][Rank(ride'.ride_status) >= Rank(ride.ride_status)]_vars

\* C7: with requests served one at a time, the ride never becomes completed
\* from a status other than started, and no step of a confirmation call moves
\* the status by more than one transition.
CompletedOnlyThroughStarted ==
    [][Rank(ride'.ride_status) <= Rank(ride.ride_status) + 1]_vars

\* The ride has gone through both transitions.
RideCompleted ==
    /\ ride.ride_status = "completed"
    /\ AllAnswered

\* C8: when the driver's and a passenger's start confirmation of a created
\* ride with no confirmation yet overlap and both are accepted, the ride is
\* started with both start flags set, and exactly one of the two calls made
\* the transition.
Accepted == {"confirmed", "started", "completed"}

BothStartConfirmationsStartTheRide ==
    \A p, w \in Workers :
        ( /\ Busy = {p, w}
          /\ pc[p] = "done" /\ pc[w] = "done"
          /\ req[p].view = "driver_start_ride"
          /\ req[w].view = "passenger_confirm_start"
          /\ outcome[p] \in Accepted /\ outcome[w] \in Accepted
          /\ ride0.ride_status = "created"
          /\ ~ride0.driver_started /\ ~ride0.passenger_started )
        => /\ ride.ride_status = "started"
           /\ ride.driver_started /\ ride.passenger_started
           /\ Cardinality({x \in {p, w} : outcome[x] = "started"}) = 1

\* C9: when a batch of overlapping requests has been answered, the Ride row,
\* the set of passengers and the answer to every request are those of
\* serving the same requests one at a time in some order.
Orders ==
    {f \in [1..Cardinality(Busy) -> Busy] :
        \A i, j \in 1..Cardinality(Busy) : i # j => f[i] # f[j]}

RECURSIVE ServedInOrder(_, _, _)
ServedInOrder(order, k, db) ==
    IF k > Cardinality(Busy)
    THEN db.ride = ride /\ db.joined = Joined
    ELSE LET res == Serve(req[order[k]], db) IN
            /\ res.outcome = outcome[order[k]]
            /\ ServedInOrder(order, k + 1, [ride |-> res.ride, joined |-> res.joined])

AsIfOneAtATime ==
    (AllAnswered /\ Busy # {}) =>
        \E order \in Orders :
            ServedInOrder(order, 1, [ride |-> ride0, joined |-> passengers0])

\* C10: with requests served one at a time, a confirmation call made while
\* its own flag is already true, or while the ride is not in the status the
\* call requires, is refused, and the Ride row and the passenger table are
\* as before.
RefusedConfirmationChangesNothing ==
    [][\A p \in Workers :
          LET q == req'[p]
              checks ==
                  \/ /\ pc[p] \in {"idle", "done"}
                     /\ pc'[p] \in {"done", "confirm_save"}
                     /\ q.view \in {"driver_start_ride", "driver_end_ride"}
                     /\ <<pc[p], req[p], outcome[p], issued>>
                            # <<pc'[p], req'[p], outcome'[p], issued'>>
                  \/ /\ pc[p] = "confirm_first"
                     /\ pc'[p] # "confirm_first"
          IN (checks /\ (\/ ride.ride_status # StatusFor(q.view)
                         \/ ride[FlagOf(q.view)]))
             => /\ pc'[p] = "done"
                /\ outcome'[p] \in {"forbidden", "wrong_status", "already_confirmed"}
                /\ ride' = ride
                /\ passengers' = passengers
      ]_vars

\* A confirmation of a flag that is already set has been refused as already
\* confirmed.
ConfirmationRefused ==
    /\ pc[1] = "done"
    /\ req[1].view \in ConfirmViews
    /\ outcome[1] = "already_confirmed"
    /\ ride[FlagOf(req[1].view)]

\* The step in which worker p's confirmation view makes its checks: the
\* first step of a driver confirmation, the second of a passenger's.
ConfirmChecks(p) ==
    \/ /\ pc[p] \in {"idle", "done"}
       /\ pc'[p] \in {"done", "confirm_save"}
       /\ req'[p].view \in {"driver_start_ride", "driver_end_ride"}
       /\ <<pc[p], req[p], outcome[p], issued>>
              # <<pc'[p], req'[p], outcome'[p], issued'>>
    \/ /\ pc[p] = "confirm_first"
       /\ pc'[p] # "confirm_first"

\* The actor of confirmation q is the one the view admits: the creator for
\* the driver's views, a user with a passenger row for the passenger's.
Authorised(q) ==
    IF q.view \in {"driver_start_ride", "driver_end_ride"}
    THEN q.user = Creator
    ELSE passengers[q.user] # 0

StartViews == {"driver_start_ride", "passenger_confirm_start"}
EndViews == {"driver_end_ride", "passenger_confirm_arrival"}

\* C11: once the ride is started, a repeated start confirmation by the
\* driver or by a passenger is answered "already confirmed", and the status
\* stays started.
RepeatedStartIsAlreadyConfirmed ==
    [][\A p \in Workers :
          ( /\ ConfirmChecks(p)
            /\ req'[p].view \in StartViews
            /\ Authorised(req'[p])
            /\ ride.ride_status = "started" )
          => /\ pc'[p] = "done"
             /\ outcome'[p] = "already_confirmed"
             /\ ride'.ride_status = "started"
      ]_vars

\* C11, as amended: once the ride is started, a repeated start confirmation
\* by the driver or by a passenger is answered with the wrong-status refusal
\* (the status check comes before the already-confirmed check), and the Ride
\* row, its status included, is as before.
RepeatedStartIsWrongStatus ==
    [][\A p \in Workers :
          ( /\ ConfirmChecks(p)
            /\ req'[p].view \in StartViews
            /\ Authorised(req'[p])
            /\ ride.ride_status = "started" )
          => /\ pc'[p] = "done"
             /\ outcome'[p] = "wrong_status"
             /\ ride' = ride
      ]_vars

\* A start confirmation has been refused on a started ride whose flag for
\* that side is set.
StartRepeatedOnStartedRide ==
    /\ pc[1] = "done"
    /\ req[1].view \in StartViews
    /\ Authorised(req[1])
    /\ outcome[1] = "wrong_status"
    /\ ride.ride_status = "started"
    /\ ride[FlagOf(req[1].view)]

\* C12: a driver confirmation by a user other than the creator, and a
\* passenger confirmation by a user with no passenger row, is answered
\* "forbidden" whatever the status and the flags are, and the Ride row and
\* the passenger table are as before.
UnauthorisedConfirmationIsForbidden ==
    [][\A p \in Workers :
          ( /\ ConfirmChecks(p)
            /\ req'[p].view \in ConfirmViews
            /\ ~Authorised(req'[p]) )
          => /\ pc'[p] = "done"
             /\ outcome'[p] = "forbidden"
             /\ ride' = ride
             /\ passengers' = passengers
      ]_vars

\* A confirmation has been answered "forbidden" on a ride whose status or
\* flag would have refused it as well.
ForbiddenWhateverTheStatus ==
    /\ pc[1] = "done"
    /\ req[1].view \in ConfirmViews
    /\ ~Authorised(req[1])
    /\ outcome[1] = "forbidden"
    /\ ConfirmRefusal(req[1].view, ride) # "none"

CreatorNeverJoins ==
    [][\A p \in Workers :
          ( /\ pc[p] \in {"idle", "done"}
            /\ req'[p].view = "join_ride"
            /\ req'[p].user = Creator
            /\ <<pc[p], req[p], outcome[p], issued>>
                   # <<pc'[p], req'[p], outcome'[p], issued'>> )
          => /\ pc'[p] = "done"
             /\ outcome'[p] \in {"verify_first", "is_driver"}
             /\ ride' = ride
             /\ passengers' = passengers
      ]_vars

\* The creator's join has been refused as the driver's on a ride with a
\* seat left.
CreatorJoinRefused ==
    /\ pc[1] = "done"
    /\ req[1].view = "join_ride"
    /\ req[1].user = Creator
    /\ outcome[1] = "is_driver"
    /\ ride.seats_available > 0

\* The step in which worker p answers a join.
JoinAnswered(p) ==
    /\ pc'[p] = "done"
    /\ req'[p].view = "join_ride"
    /\ <<pc[p], req[p], outcome[p], issued>>
           # <<pc'[p], req'[p], outcome'[p], issued'>>

\* C15: a join by a user who holds a passenger row when the request starts
\* is answered "already joined", and seats_available and the passenger table
\* are as before.
JoinByPassengerIsAlreadyJoined ==
    [][\A p \in Workers :
          (JoinAnswered(p) /\ passengers[req'[p].user] # 0)
          => /\ outcome'[p] = "already_joined"
             /\ ride' = ride
             /\ passengers' = passengers
      ]_vars

\* C15, as amended: with requests served one at a time, a join by a user who
\* holds a passenger row is refused, as "already joined" when a seat is left
\* and as "no seats" when none is (the seats check comes first), and
\* seats_available and the passenger table are as before.
JoinByPassengerIsRefused ==
    [][\A p \in Workers :
          /\ (JoinAnswered(p) /\ passengers[req'[p].user] # 0)
             => /\ outcome'[p] = IF ride.seats_available <= 0
                                 THEN "no_seats" ELSE "already_joined"
                /\ ride' = ride
                /\ passengers' = passengers
          /\ (pc'[p] = "join_save" /\ pc[p] # "join_save")
             => passengers[req'[p].user] = 0
      ]_vars

\* A join by a user who holds a passenger row has been refused as already
\* joined.
AlreadyJoinedRefused ==
    /\ pc[1] = "done"
    /\ req[1].view = "join_ride"
    /\ outcome[1] = "already_joined"
    /\ passengers[req[1].user] # 0

\* C17: with requests served one at a time, a leave (cancel) by a user with
\* no passenger row is refused and changes nothing; by a user with a row it
\* deletes that row and no other, then writes seats_available + 1, and the
\* status and the flags are as before.
LeaveReleasesExactlyOneSeat ==
    [][\A p \in Workers :
          /\ (pc[p] = "leave_first" /\ pc'[p] # "leave_first")
             => /\ ride' = ride
                /\ passengers' = passengers
                /\ IF passengers[req[p].user] = 0
                   THEN pc'[p] = "done" /\ outcome'[p] = "not_joined"
                   ELSE pc'[p] = "leave_delete"
          /\ (pc[p] = "leave_delete" /\ pc'[p] # "leave_delete")
             => /\ passengers[req[p].user] # 0
                /\ passengers' = [passengers EXCEPT ![req[p].user] = 0]
                /\ ride' = ride
                /\ pc'[p] = "leave_save"
          /\ (pc[p] = "leave_save" /\ pc'[p] # "leave_save")
             => /\ ride' = [ride EXCEPT !.seats_available = @ + 1]
                /\ passengers' = passengers
                /\ pc'[p] = "done" /\ outcome'[p] = "left"
      ]_vars

\* A passenger has left a ride on which another passenger stays.
LeftWithOthersAboard ==
    /\ pc[1] = "done"
    /\ req[1].view = "leave_ride"
    /\ outcome[1] = "left"
    /\ Joined # {}

\* C18: on a ride created with total_seats = 2, with A and B two users other
\* than the creator: seats_available is 1 after creation; A's join succeeds
\* and leaves 0; B's join is refused for lack of seats and leaves 0; A's
\* leave leaves 1; B's second join succeeds and leaves 0.
ScenarioAsSpecified ==
    LET A == req[1].user
        B == req[2].user
    IN
    ( /\ ride0.total_seats = 2
      /\ AllAnswered
      /\ issued >= 1 => A \in Riders
      /\ issued >= 2 => B \in Riders \ {A} )
    => /\ ride0.seats_available = 1
       /\ issued = 0 => ride.seats_available = 1
       /\ issued = 1 => (outcome[1] = "joined" /\ ride.seats_available = 0
                            /\ Joined = {A})
       /\ issued = 2 => (outcome[2] = "no_seats" /\ ride.seats_available = 0
                            /\ Joined = {A})
       /\ issued = 3 => (outcome[1] = "left" /\ ride.seats_available = 1
                            /\ Joined = {})
       /\ issued = 4 => (outcome[2] = "joined" /\ ride.seats_available = 0
                            /\ Joined = {B})

\* The four requests of the scenario have been answered.
ScenarioPlayed ==
    /\ ride0.total_seats = 2
    /\ issued = 4
    /\ AllAnswered
    /\ req[1].view = "leave_ride" /\ req[1].user \in Riders
    /\ req[2].view = "join_ride" /\ req[2].user \in Riders \ {req[1].user}
    /\ outcome[2] = "joined"

\* C16: when one user sends two overlapping join requests for a ride with a
\* seat left, the user ends up with one passenger row and seats_available
\* is one less than before, however the two requests interleave.
SameUserJoinsTakeOneSeat ==
    \A p, w \in Workers :
        ( /\ p # w
          /\ Busy = {p, w}
          /\ pc[p] = "done" /\ pc[w] = "done"
          /\ req[p].view = "join_ride" /\ req[w].view = "join_ride"
          /\ req[p].pickup_point /\ req[w].pickup_point
          /\ req[p].user = req[w].user
          /\ req[p].user \in verified \ ({Creator} \cup passengers0)
          /\ ride0.seats_available >= 1 )
        => /\ Joined = passengers0 \cup {req[p].user}
           /\ ride.seats_available = ride0.seats_available - 1

\* C19: an update_location for the ride by a user with no passenger row on
\* it is answered "forbidden" and the LiveLocation table is as before, a row
\* the user already has included; no update_location writes before its
\* passenger check has passed.
UpdateByNonPassengerWritesNothing ==
    [][\A p \in Workers :
          /\ ( /\ pc[p] = "loc_exists" /\ pc'[p] # "loc_exists"
               /\ req[p].ride = "this"
               /\ passengers[req[p].user] = 0 )
             => /\ pc'[p] = "done"
                /\ outcome'[p] = "forbidden"
                /\ locations' = locations
          /\ ( /\ req'[p].view = "update_location"
               /\ req'[p].ride = "this"
               /\ locations' # locations )
             => /\ pc[p] = "loc_write"
                /\ passengers[req[p].user] # 0
      ]_vars

\* A user who holds a location row and no passenger row has been refused an
\* update that would have changed the row.
NonPassengerUpdateRefused ==
    /\ pc[1] = "done"
    /\ req[1].view = "update_location"
    /\ req[1].ride = "this"
    /\ outcome[1] = "forbidden"
    /\ passengers[req[1].user] = 0
    /\ locations[req[1].user] # NoLocation
    /\ locations[req[1].user].position # req[1].coords

\* C20: get_location returns no coordinates of a target whose row has
\* is_sharing = False: the answer is the "not available" of a target with no
\* row; coordinates that are returned are those of the target's sharing row
\* for the ride.
GetLocationHidesUnsharedRows ==
    [][\A p \in Workers :
          /\ ( /\ pc[p] = "getloc_row" /\ pc'[p] # "getloc_row"
               /\ ~locations[req[p].target].is_sharing )
             => /\ pc'[p] = "done"
                /\ outcome'[p] = "not_available"
                /\ shown'[p] = NoPosition
          /\ outcome'[p] = "location" /\ outcome[p] # "location"
             => pc[p] = "getloc_row"
          /\ (shown'[p] # NoPosition /\ shown'[p] # shown[p])
             => /\ pc[p] = "getloc_row"
                /\ locations[req[p].target].is_sharing
                /\ shown'[p] = locations[req[p].target].position
      ]_vars

\* The driver has asked for the location of a passenger whose row for the
\* ride has is_sharing = False, and was told it is not available.
UnsharedRowNotShown ==
    /\ pc[1] = "done"
    /\ req[1].view = "get_location"
    /\ outcome[1] = "not_available"
    /\ locations[req[1].target].ride = "this"
    /\ ~locations[req[1].target].is_sharing
    /\ shown[1] = NoPosition

\* ------------------------------------------------------------------------
\* C21: get_location returns coordinates only when the requester is the
\* creator of the ride and the target user holds a RidePassenger row on it;
\* in every other case the response carries no coordinates.
\* ------------------------------------------------------------------------
LocationOnlyToCreatorAboutPassenger ==
    \A p \in Workers :
        (pc[p] = "done" /\ req[p].view = "get_location") =>
            IF req[p].user = Creator /\ req[p].target \in Joined
            THEN outcome[p] \in {"location", "not_available"}
            ELSE /\ outcome[p] \in {"forbidden", "not_passenger"}
                 /\ shown[p] = NoPosition

\* A passenger who shares a position on the ride, asked for by a user who is
\* not the creator: refused, no coordinates.
SharedLocationRefusedToNonCreator ==
    \E p \in Workers :
        /\ pc[p] = "done" /\ req[p].view = "get_location"
        /\ req[p].user # Creator
        /\ req[p].target \in Joined
        /\ locations[req[p].target].ride = "this"
        /\ locations[req[p].target].is_sharing
        /\ outcome[p] = "forbidden"
        /\ shown[p] = NoPosition

\* ------------------------------------------------------------------------
\* C22: update_location succeeds only when the ride it names is started: no
\* LiveLocation row is created or overwritten for a created or completed ride.
\* ------------------------------------------------------------------------
UpdateOnlyOnStartedRide ==
    \A p \in Workers :
        (/\ pc[p] = "done" /\ req[p].view = "update_location"
         /\ req[p].ride = "this"
         /\ outcome[p] = "updated") => ride.ride_status = "started"

\* ------------------------------------------------------------------------
\* C23: when the ride becomes completed, every LiveLocation row that
\* references the ride is deleted: a completed ride has no location rows.
\* ------------------------------------------------------------------------
CompletedRideHasNoLocationRows ==
    ride.ride_status = "completed" =>
        \A u \in Users : locations[u].ride # "this"

\* ------------------------------------------------------------------------
\* C24: a user has at most one LiveLocation row (locations gives every user
\* one row or none).  A successful update_location of a user, for any ride,
\* puts the ride, the coordinates and the sharing flag of the request in the
\* place of the user's previous row, also when that row was for a different
\* ride, and leaves the rows of the other users as they were.
\* ------------------------------------------------------------------------
UpdateReplacesTheUsersRow ==
    \A p \in Workers :
        (pc[p] = "done" /\ req[p].view = "update_location" /\ outcome[p] = "updated") =>
            locations = [locations0 EXCEPT ![req[p].user] =
                            [ride |-> req[p].ride, position |-> req[p].coords,
                             is_sharing |-> req[p].is_sharing]]

\* An update for the ride by a user whose row was for another ride and at
\* another position, while another user holds a row.
RowOfAnotherRideReplaced ==
    \E p \in Workers :
        /\ pc[p] = "done" /\ req[p].view = "update_location" /\ outcome[p] = "updated"
        /\ req[p].ride = "this"
        /\ locations0[req[p].user].ride = "other"
        /\ locations0[req[p].user].position # req[p].coords
        /\ locations[req[p].user].ride = "this"
        /\ \E v \in Users \ {req[p].user} : locations[v] # NoLocation

\* ------------------------------------------------------------------------
\* C25: stop_location_sharing always answers with success (with "stopped"
\* when it deleted a row, with "nothing to stop" when there was none); after
\* it the user has no LiveLocation row, the rows of the other users, the
\* ride and the passengers are as before; applied to a user without a row,
\* as after a first application, it changes nothing.
\* ------------------------------------------------------------------------
StopSharingIsIdempotent ==
    \A p \in Workers :
        (pc[p] = "done" /\ req[p].view = "stop_location_sharing") =>
            /\ outcome[p] \in {"stopped", "nothing_to_stop"}
            /\ locations = [locations0 EXCEPT ![req[p].user] = NoLocation]
            /\ locations0[req[p].user] = NoLocation =>
                  (locations = locations0 /\ outcome[p] = "nothing_to_stop")
            /\ ride = ride0
            /\ Joined = passengers0

\* A user's row is deleted while another user holds one.
StoppedWhileAnotherShares ==
    \E p \in Workers :
        /\ pc[p] = "done" /\ req[p].view = "stop_location_sharing"
        /\ outcome[p] = "stopped"
        /\ locations0[req[p].user] # NoLocation
        /\ locations[req[p].user] = NoLocation
        /\ \E v \in Users \ {req[p].user} : locations[v] # NoLocation

\* ------------------------------------------------------------------------
\* C26: delete_ride removes the ride only when the requester is its creator
\* and no RidePassenger row references the ride at the moment it is removed,
\* also when a join runs at the same time; a delete_ride that is refused
\* leaves the ride and its passengers unchanged.
\* ------------------------------------------------------------------------
DeleteOnlyRideWithoutPassengers ==
    [][\A p \in Workers :
          (pc[p] \in {"idle", "delete_count", "delete_delete"} /\ pc'[p] = "done"
           /\ req'[p].view = "delete_ride") =>
              IF req'[p].user = Creator /\ Joined = {}
              THEN ~ride_exists' /\ outcome'[p] = "deleted"
              ELSE /\ ride_exists' /\ outcome'[p] \in {"forbidden", "has_passengers"}
                   /\ ride' = ride /\ passengers' = passengers]_vars

\* ------------------------------------------------------------------------
\* C27: a user who is not verified can never create a ride and can never
\* get a RidePassenger row: every create_ride and every join_ride of such a
\* user is refused at once with the request to verify first, whether or not
\* the ride exists, and changes nothing; every passenger is verified.
\* ------------------------------------------------------------------------
UnverifiedNeverCreatesOrJoins ==
    [][/\ \A p \in Workers :
             (/\ pc[p] \in {"idle", "done"}
              /\ req'[p].view \in {"create_ride", "join_ride"}
              /\ req'[p].user \notin verified) =>
                 /\ pc'[p] = "done"
                 /\ outcome'[p] = "verify_first"
                 /\ ride' = ride /\ passengers' = passengers
                 /\ ride_exists' = ride_exists
       /\ Joined' \subseteq verified']_vars

\* A join with a pickup point, by a user who is not verified, on a ride with
\* a free seat: refused, and the user has no row.
UnverifiedJoinRefused ==
    \E p \in Workers :
        /\ pc[p] = "done" /\ req[p].view = "join_ride"
        /\ req[p].user \notin verified
        /\ req[p].user # Creator
        /\ req[p].pickup_point
        /\ ride_exists /\ ride.seats_available > 0
        /\ outcome[p] = "verify_first"
        /\ req[p].user \notin Joined

\* ------------------------------------------------------------------------
\* C28: every start confirmation that is accepted, by the driver or by a
\* passenger, comes from a user who is verified when making it, on a ride
\* made by create_ride and joined through join_ride.
\* ------------------------------------------------------------------------
AcceptedStartIsByVerifiedUser ==
    \A p \in Workers :
        (pc[p] = "done" /\ req[p].view \in StartViews /\ outcome[p] \in Accepted) =>
            req[p].user \in verified

\* A passenger's start confirmation is accepted while some user is still
\* not verified.
PassengerStartAcceptedAmongUnverified ==
    \E p \in Workers :
        /\ pc[p] = "done" /\ req[p].view = "passenger_confirm_start"
        /\ outcome[p] \in Accepted
        /\ req[p].user \in verified
        /\ verified # Users

\* ------------------------------------------------------------------------
\* C29: the response of a join and the state it leaves are the same whether
\* the notification of the creator is sent, fails or raises: the join that
\* inserts the RidePassenger row answers "joined", the row is there and the
\* seat stays taken, whatever the mailer does.
\* ------------------------------------------------------------------------
JoinIgnoresNotification ==
    [][\A p \in Workers :
          (pc[p] = "join_create" /\ pc'[p] # "join_create") =>
              /\ outcome'[p] = "joined"
              /\ passengers' = [passengers EXCEPT ![req[p].user] = NextPk]
              /\ ride' = ride
              /\ ride.seats_available = ride0.seats_available - Cardinality(Joined')]_vars

\* A join is answered "joined" although the notification raised.
JoinedThoughNotificationRaised ==
    \E p \in Workers :
        /\ mailer = "raised"
        /\ pc[p] = "done" /\ req[p].view = "join_ride"
        /\ outcome[p] = "joined"
        /\ req[p].user \in Joined
        /\ ride.seats_available = ride0.seats_available - Cardinality(Joined)

\* ------------------------------------------------------------------------
\* C30: between requests, on a ride made by create_ride and changed by joins
\* and leaves served one at a time, occupant_count, the larger of
\* total_seats - seats_available and 1, is the number of passengers plus one
\* for the driver; also with no passenger and with total_seats = 1.
\* ------------------------------------------------------------------------
OccupantsArePassengersAndDriver ==
    AllAnswered => occupant_count(ride) = Cardinality(Joined) + 1

\* A ride with a single seat, the driver's, after a request: one occupant.
DriverAloneOnSingleSeatRide ==
    /\ pc[1] = "done"
    /\ ride.total_seats = 1
    /\ ride.seats_available = 0
    /\ Joined = {}
    /\ occupant_count(ride) = 1

\* ------------------------------------------------------------------------
\* C31: for a petrol car ride of 12 km (120 g per km) created with 4 seats,
\* calculate_co2 on the ride's occupant count gives 1440 g solo; 720 g shared
\* and 720 g saved after one passenger has joined; 360 g shared and 1080 g
\* saved after three passengers have joined.
\* ------------------------------------------------------------------------
WorkedExample ==
    (/\ footprint.distance_km = 12
     /\ footprint.vehicle_type = "car_petrol"
     /\ footprint.total_seats = 4) =>
        /\ footprint.solo = 1440
        /\ footprint.joined = 1 => (footprint.shared = 720 /\ footprint.saved = 720)
        /\ footprint.joined = 3 => (footprint.shared = 360 /\ footprint.saved = 1080)

\* The summary of the full car of the example has been computed.
FullCarSummarised ==
    /\ footprint.distance_km = 12
    /\ footprint.vehicle_type = "car_petrol"
    /\ footprint.total_seats = 4
    /\ footprint.joined = 3
    /\ footprint.saved = 1080

\* ------------------------------------------------------------------------
\* C32: a code submitted more than 10 minutes after it was sent cannot mark
\* the user verified, whether or not the user opened the code-entry page in
\* between: a user becomes verified only within the timeout of a pending code.
\* ------------------------------------------------------------------------
VerifiedOnlyWithinTimeout ==
    [][\A u \in Users :
          (u \notin verified /\ u \in verified') =>
              /\ otp_sent_at[u] # NoTime
              /\ clock - otp_sent_at[u] <= OtpTimeout]_vars

\* ------------------------------------------------------------------------
\* C33: on a ride with two or more passengers, the confirmation of one
\* passenger together with the driver's makes the transition, and once a
\* passenger has confirmed, the confirmation of the same phase by any other
\* passenger is refused as already confirmed.
\* ------------------------------------------------------------------------
FirstPassengerSpeaksForAll ==
    /\ (/\ pc[1] = "done"
        /\ ride0[FlagOf(IF req[1].view = "passenger_confirm_start"
                        THEN "driver_start_ride" ELSE "driver_end_ride")]
        /\ ride0.ride_status = StatusFor(req[1].view)
        /\ ~ride0[FlagOf(req[1].view)])
       => outcome[1] \in {"started", "completed"}
    /\ (/\ pc[1] = "done" /\ pc[2] = "done"
        /\ outcome[1] \in Accepted
        /\ req[2].view = req[1].view
        /\ req[2].user # req[1].user)
       => outcome[2] = "already_confirmed"

\* C33, as amended: on a ride with two or more passengers, the confirmation
\* of one passenger together with the driver's makes the transition, and
\* once a passenger has confirmed, the confirmation of the same phase by any
\* other passenger is refused and changes nothing: as already confirmed
\* while the driver's confirmation is missing, and with the wrong-status
\* refusal once the transition has been made.
FirstPassengerSpeaksForAllRefusals ==
    /\ (/\ pc[1] = "done"
        /\ ride0[FlagOf(IF req[1].view = "passenger_confirm_start"
                        THEN "driver_start_ride" ELSE "driver_end_ride")]
        /\ ride0.ride_status = StatusFor(req[1].view)
        /\ ~ride0[FlagOf(req[1].view)])
       => outcome[1] \in {"started", "completed"}
    /\ (/\ pc[1] = "done" /\ pc[2] = "done"
        /\ outcome[1] \in Accepted
        /\ req[2].view = req[1].view
        /\ req[2].user # req[1].user)
       => /\ outcome[2] = IF outcome[1] = "confirmed"
                          THEN "already_confirmed" ELSE "wrong_status"
          /\ ride = [ride0 EXCEPT
                        ![FlagOf(req[1].view)] = TRUE,
                        !.ride_status = IF outcome[1] = "confirmed"
                                        THEN @ ELSE outcome[1]]

\* The ride was started by one passenger and the driver; the other
\* passenger's start confirmation is refused with the wrong status.
OtherPassengerRefusedAfterStart ==
    /\ pc[1] = "done" /\ pc[2] = "done"
    /\ req[1].view = "passenger_confirm_start"
    /\ req[2].view = "passenger_confirm_start"
    /\ req[2].user # req[1].user
    /\ {req[1].user, req[2].user} \subseteq Joined
    /\ outcome[1] = "started"
    /\ outcome[2] = "wrong_status"
    /\ ride.ride_status = "started"

\* ------------------------------------------------------------------------
\* C34: an administrative cancel of a completed ride leaves the ride and all
\* its rows unchanged; an administrative cancel of a created or started ride
\* removes the ride with all its RidePassenger and LiveLocation rows, and no
\* row referring to the removed ride exists in any later state.
\* ------------------------------------------------------------------------
AdminCancelRemovesRideAndRows ==
    /\ (pc[1] = "done" /\ req[1].view = "admin_cancel_ride") =>
          IF ride0.ride_status = "completed"
          THEN /\ outcome[1] = "refused"
               /\ ride_exists
               /\ pc[2] = "idle" =>
                     (ride = ride0 /\ Joined = passengers0 /\ locations = locations0)
          ELSE /\ outcome[1] = "cancelled"
               /\ ~ride_exists
               /\ pc[2] = "idle" =>
                     \A u \in Users :
                        locations[u] = IF locations0[u].ride = "this"
                                       THEN NoLocation ELSE locations0[u]
    /\ ~ride_exists =>
          /\ Joined = {}
          /\ \A u \in Users : locations[u].ride # "this"

\* A started ride with a passenger and a location row was cancelled, and a
\* later location update for it by the former passenger was answered.
UpdateAfterCancelWritesNothing ==
    /\ ~ride_exists
    /\ ride0.ride_status = "started"
    /\ pc[2] = "done" /\ req[2].view = "update_location"
    /\ req[2].user \in passengers0
    /\ locations0[req[2].user].ride = "this"
    /\ locations[req[2].user] = NoLocation

\* ------------------------------------------------------------------------
\* C35: with one request at a time, a started ride has both start
\* confirmations, a completed ride has all four confirmations, and a ride
\* that is still created has neither end confirmation.
FlagsFollowStatus ==
    /\ ride.ride_status = "started" => (ride.driver_started /\ ride.passenger_started)
    /\ ride.ride_status = "completed" =>
          /\ ride.driver_started /\ ride.passenger_started
          /\ ride.driver_ended /\ ride.passenger_ended
    /\ ride.ride_status = "created" => (~ride.driver_ended /\ ~ride.passenger_ended)

\* The ride was completed by four accepted confirmations and a later end
\* confirmation has been refused.
CompletedWithAllFourFlags ==
    /\ ride.ride_status = "completed"
    /\ ride.driver_ended /\ ride.passenger_ended
    /\ pc[1] = "done" /\ req[1].view \in EndViews /\ outcome[1] = "wrong_status"

\* ------------------------------------------------------------------------
\* C36: whenever the status changes from created to started, the ride has
\* at least one RidePassenger row at that moment.
StartedOnlyWithAPassenger ==
    [][(ride.ride_status = "created" /\ ride'.ride_status = "started")
          => Joined' # {}]_vars

\* ------------------------------------------------------------------------
\* C37: a save made by a confirmation request changes, in the Ride row, only
\* the flag of its view and possibly ride_status: seats_available and the
\* other three flags stay as the row had them, also when the request read
\* the ride before another request committed.
ConfirmationWritesOnlyItsFlag ==
    [][\A p \in Workers :
          (pc[p] \in {"confirm_save", "confirm_status"} /\ pc'[p] # pc[p])
          => /\ ride'.seats_available = ride.seats_available
             /\ \A view \in ConfirmViews \ {req[p].view} :
                   ride'[FlagOf(view)] = ride[FlagOf(view)]]_vars

\* ------------------------------------------------------------------------
\* C38: after a passenger has left the ride and joined it again, and before
\* the passenger sends a new update_location, get_location by the creator
\* for that passenger finds no location.
RejoinHidesOldLocation ==
    ( /\ pc[1] = "done" /\ req[1].view = "get_location"
      /\ req[2].view = "join_ride" /\ outcome[2] = "joined"
      /\ req[2].user \in passengers0 )
    => outcome[1] = "not_available"

\* ------------------------------------------------------------------------
\* C39: get_location for the ride returns coordinates only from a row whose
\* ride is this ride.  Once the target has sent an update_location for
\* another ride, the creator is answered with a 404 and no coordinates,
\* until the target sends a sharing update for this ride, whose coordinates
\* the creator is then shown.
LocationOnlyFromRowOfTheRide ==
    /\ \A p \in Workers :
          (pc[p] = "done" /\ req[p].view = "get_location" /\ outcome[p] = "location")
          => /\ locations[req[p].target].ride = "this"
             /\ shown[p] = locations[req[p].target].position
    /\ ( /\ pc[2] = "done" /\ req[2].view = "get_location"
         /\ req[1].ride = "other" /\ outcome[1] = "updated" )
       => /\ outcome[2] \in {"not_available", "not_passenger"}
          /\ shown[2] = NoPosition
    /\ ( /\ pc[1] = "done" /\ req[1].view = "get_location"
         /\ outcome[2] = "updated" )
       => IF req[2].is_sharing
          THEN outcome[1] = "location" /\ shown[1] = req[2].coords
          ELSE outcome[1] = "not_available" /\ shown[1] = NoPosition

\* A passenger of the ride whose row was a sharing row for the ride sent a
\* sharing update for another ride, and the creator then found no location.
RowMovedToAnotherRideNotShown ==
    /\ pc[2] = "done" /\ req[2].view = "get_location"
    /\ outcome[2] = "not_available"
    /\ req[1].ride = "other" /\ outcome[1] = "updated" /\ req[1].is_sharing
    /\ req[1].user \in Joined
    /\ locations0[req[1].user].ride = "this"
    /\ locations0[req[1].user].is_sharing

\* ------------------------------------------------------------------------
\* C40: on a created ride with at least one passenger, when the driver and
\* a passenger each send their start confirmation and, on the started ride,
\* their end confirmation, one request at a time and with every pending step
\* eventually taken, the ride becomes completed and is completed ever after.
EventuallyCompletedForGood == <>[](ride.ride_status = "completed")

\* The ride was completed by the four confirmations and a confirmation sent
\* afterwards has been refused.
ConfirmationAfterCompletionRefused ==
    /\ ride.ride_status = "completed"
    /\ ride0.ride_status = "created" /\ ~ride0.passenger_started
    /\ pc[1] = "done" /\ outcome[1] = "wrong_status"
    /\ req[1].view \in ConfirmViews

====
